---- MODULE Spec2Model ----
(***************************************************************************)
(* Model of the LO-Fi-spotify mixing core:                                 *)
(*   - IntelligentDJTransitions (frontend/src/App.tsx, second half):       *)
(*     the transition executor and its requestAnimationFrame loops;        *)
(*   - LoFiProcessor (frontend/src/lofi-processor.ts) and                  *)
(*     RealTimeAudioTransformer (frontend/src/App.tsx, first half):        *)
(*     the adaptive effects chains and their timers;                       *)
(*   - AIDJEngine (unnamed/part_000): track scoring and ordering.          *)
(*                                                                         *)
(* Numbers are fixed-point integers: progress in 1/P1, crossfade gains in  *)
(* 1/G1, effect gains in 1/100, the transformer's compression ratio in     *)
(* 1/10, time in ticks of TickMs milliseconds.                             *)
(***************************************************************************)
EXTENDS Integers, Sequences, FiniteSets, TLC

VARIABLES
    \* ---- IntelligentDJTransitions ----
    dj_audioContext,      \* audioContext !== null (initialize has run)
    dj_currentAudio,      \* currentAudio: element id or NoElem
    dj_nextAudio,         \* nextAudio: element id or NoElem
    dj_currentGain,       \* currentGain.gain.value, NoGain before initialize
    dj_nextGain,          \* nextGain.gain.value, NoGain before initialize
    dj_transitionState,   \* the TransitionState record
    dj_currentTransition, \* currentTransition: accepted index or 0 (null)
    dj_playbackRate,      \* playbackRate of each audio element, percent
    dj_sourced,           \* elements that already own a MediaElementSource
    dj_loops,             \* pending requestAnimationFrame callbacks (closures)
    dj_events,            \* 'dj-transition-complete' events dispatched so far
    dj_accepted,          \* history: transitions executeTransition accepted
    \* ---- LoFiProcessor ----
    lp_nodes,             \* filterNode/gainNode/compressorNode/analyserNode exist
    lp_currentMood,
    lp_baseMoodSettings,
    lp_filter,            \* last value/target written to filterNode.frequency
    lp_gain,              \* last value/target written to gainNode.gain
    lp_ratio,             \* last value/target written to compressorNode.ratio
    lp_write,             \* how the last write of the three was scheduled
    lp_analysisInterval,  \* timer id or 0 (null)
    lp_isAnalyzing,
    lp_visualMode,
    lp_frequencyData,     \* NoData (null) or the band levels held in the array
    lp_timers,            \* registered setInterval timers: [id, kind]
    lp_nextTimerId,       \* next id setInterval hands out
    \* ---- RealTimeAudioTransformer ----
    rt_nodes,             \* effect chain created (initialize succeeded)
    rt_isProcessing,
    rt_frame,             \* a processFrame callback is scheduled
    rt_currentSettings,
    rt_lowPass,           \* last target/value of lowPassFilter.frequency
    rt_ratio,             \* compressor.ratio.value, in tenths
    \* ---- AIDJEngine.optimizeTrackOrder run ----
    en_currentMood,
    en_input,             \* the argument list (references into TrackPool)
    en_pc,                \* "idle" | "loop" | "done"
    en_optimized,
    en_remaining,
    en_result,
    en_calls,             \* getNextTrack calls made by the current run
    en_tracks,            \* this.tracks: the analysed pool, one record per object
    \* ---- the engine call under study ----
    fn_args,              \* its arguments
    fn_result,            \* what the latest call returned
    fn_first,             \* what the first call returned
    fn_calls,             \* calls made so far
    \* ---- CompleteAIDJPlayer ----
    pl_isInitialized,
    pl_currentAudio,      \* currentAudio: element id or NoElem
    pl_nextAudio,         \* nextAudio: element id or NoElem
    pl_djState,           \* the AIDJState record
    pl_originalTracks,
    pl_src,               \* track id whose preview each audio element has as src
    pl_pendingTransition, \* the executor accepted a transition and animates it
    pl_analysisLoops,     \* pending setTimeout(analyze, 100) callbacks
    \* ---- AILoFiPlayer ----
    ai_spotifyPlayer,     \* spotifyPlayer !== null (initialize has created it)
    ai_deviceId,          \* deviceId !== null (the 'ready' event has fired)
    ai_state,             \* the AILoFiState record
    ai_transitionTimer,   \* transitionTimer: timer id or 0 (null)
    ai_positionTimer,     \* positionTimer: timer id or 0 (null)
    ai_timers,            \* registered setInterval timers: [id, kind]
    ai_nextTimerId,       \* next id setInterval hands out
    ai_playbackPending,   \* startPlayback calls waiting for their fetches
    ai_awaitingState,     \* monitoring callbacks waiting for getCurrentState()
    ai_awaitingDecision,  \* monitoring callbacks waiting for the AI decision
    \* ---- history ----
    lastOp                \* the operation that produced this state, and its result

djVars == <<dj_audioContext, dj_currentAudio, dj_nextAudio, dj_currentGain,
            dj_nextGain, dj_transitionState, dj_currentTransition,
            dj_playbackRate, dj_sourced, dj_loops, dj_events, dj_accepted>>
lpVars == <<lp_nodes, lp_currentMood, lp_baseMoodSettings, lp_filter, lp_gain,
            lp_ratio, lp_write, lp_analysisInterval, lp_isAnalyzing,
            lp_visualMode, lp_frequencyData, lp_timers, lp_nextTimerId>>
rtVars == <<rt_nodes, rt_isProcessing, rt_frame, rt_currentSettings,
            rt_lowPass, rt_ratio>>
enVars == <<en_currentMood, en_input, en_pc, en_optimized, en_remaining,
            en_result, en_calls>>
fnVars == <<en_tracks, fn_args, fn_result, fn_first, fn_calls>>
plVars == <<pl_isInitialized, pl_currentAudio, pl_nextAudio, pl_djState,
            pl_originalTracks, pl_src, pl_pendingTransition, pl_analysisLoops>>
aiVars == <<ai_spotifyPlayer, ai_deviceId, ai_state, ai_transitionTimer,
            ai_positionTimer, ai_timers, ai_nextTimerId, ai_playbackPending,
            ai_awaitingState, ai_awaitingDecision>>
vars == <<djVars, lpVars, rtVars, enVars, fnVars, plVars, aiVars, lastOp>>

Moods == {"chill", "cafe", "study", "party"}

Min(a, b) == IF a < b THEN a ELSE b
Max(a, b) == IF a > b THEN a ELSE b
Abs(a) == IF a < 0 THEN -a ELSE a

(***************************************************************************)
(*                       IntelligentDJTransitions                          *)
(***************************************************************************)

\* ---- bounds of the model ----
MaxTransitions == 2   \* executeTransition calls accepted in one behaviour
NumElems == 1         \* audio elements handed to prepareNextTrack
NumTracks == 2        \* distinct track identities

\* ---- fixed-point units ----
P1 == 120             \* progress 1.0
G1 == 1000            \* gain 1.0
TickMs == 2000        \* milliseconds per model tick

NoElem == 0
NoTrack == 0
NoGain == -1
Elems == 1..NumElems
TrackIds == 1..NumTracks

TransitionTypes == {"crossfade", "beatmatch", "harmonic", "energy_build", "energy_drop"}

\* The duration calculateTransition gives each type (part_000:285-297), in ms.
PlannedDuration(type) ==
    CASE type = "beatmatch" -> 16000
      [] type = "harmonic" -> 12000
      [] type \in {"energy_build", "energy_drop"} -> 10000
      [] OTHER -> 8000

\* DJTransition values handed to executeTransition.  keyCompatibility is in
\* sixths (1 - keyDistance/6), tempoAdjustment in percent.
DJTransitions ==
    { [fromTrack |-> f, toTrack |-> t, transitionType |-> ty,
       duration |-> PlannedDuration(ty), tempoAdjustment |-> ta,
       keyCompatibility |-> kc] :
         f \in TrackIds, t \in TrackIds, ty \in TransitionTypes,
         ta \in {80, 100}, kc \in {2, 4, 6} }

\* One transition of every type and harmonic curve from track 1 to track 2,
\* and crossfades between every other pair of distinct tracks.
DJInputs ==
    { tr \in DJTransitions :
        /\ tr.fromTrack # tr.toTrack
        /\ (tr.transitionType = "beatmatch" <=> tr.tempoAdjustment = 80)
        /\ (tr.transitionType # "harmonic" => tr.keyCompatibility = 6)
        /\ (tr.transitionType # "crossfade" => tr.fromTrack = 1 /\ tr.toTrack = 2) }

InitialTransitionState ==
    [isTransitioning |-> FALSE, fromTrack |-> NoTrack, toTrack |-> NoTrack,
     progress |-> 0, fadeOutGain |-> G1, fadeInGain |-> 0,
     crossfadePosition |-> 0]

DJInit ==
    /\ dj_audioContext = FALSE
    /\ dj_currentAudio = NoElem
    /\ dj_nextAudio = NoElem
    /\ dj_currentGain = NoGain
    /\ dj_nextGain = NoGain
    /\ dj_transitionState = InitialTransitionState
    /\ dj_currentTransition = 0
    /\ dj_playbackRate = [e \in Elems |-> 100]
    /\ dj_sourced = {}
    /\ dj_loops = {}
    /\ dj_events = <<>>
    /\ dj_accepted = <<>>

\* ---- gain curves ----
\* sin(x*pi/2) for x = n/d in [0,1], in 1/G1 (Bhaskara's rational
\* approximation, exact at x = 0 and x = 1).
SinQ(n, d) == (4 * n * (2 * d - n) * G1) \div (5 * d * d - n * (2 * d - n))
CosQ(n, d) == SinQ(d - n, d)
\* Math.sqrt on [0,1]: argument and result in 1/G1, rounded down
SqrtTable == [n \in 0..G1 |-> CHOOSE r \in 0..G1 : r * r <= n * G1 /\ (r + 1) * (r + 1) > n * G1]
\* sqrt(n/d) and (n/d)^2, in 1/G1
SqrtQ(n, d) == SqrtTable[(n * G1) \div d]
SquareQ(n, d) == (n * n * G1) \div (d * d)

\* generateHarmonicCurve: which of the three curves a keyCompatibility selects
\* (kc in sixths: > 0.8 is kc > 4.8, > 0.5 is kc > 3).
HarmonicCurveKind(kc) ==
    IF 10 * kc > 48 THEN "linear"
    ELSE IF kc > 3 THEN "scurve"
    ELSE "sqrt"

\* curve[i] of the 101-point array generateHarmonicCurve builds, in 1/G1
HarmonicCurveAt(kind, i) ==
    CASE kind = "linear" -> (i * G1) \div 100
      [] kind = "scurve" -> (SinQ(i, 100) * SinQ(i, 100)) \div G1
      [] OTHER -> SqrtQ(i, 100)

\* progress = Math.min((now - startTime) / duration, 1), in 1/P1
ProgressOf(loop) == Min((loop.elapsed * P1) \div loop.duration, P1)

\* The <<fadeOutGain, fadeInGain, crossfadePosition>> one animate() call
\* computes.  crossfadePosition is kept in 1/G1 (progress is rescaled).
FrameGains(loop) ==
    LET p == ProgressOf(loop)
        lin == (p * G1) \div P1
    IN  CASE loop.type = "energy_build" ->
               <<SquareQ(P1 - p, P1), SqrtQ(p, P1), lin>>
          [] loop.type = "energy_drop" ->
               <<G1 - SqrtQ(p, P1), SquareQ(p, P1), lin>>
          [] loop.type = "beatmatch" ->
               <<CosQ(p, P1), SinQ(p, P1), lin>>
          [] loop.type = "curve" ->
               LET idx == (p * 100) \div P1
                   c == HarmonicCurveAt(loop.curve, idx)
                   cp == IF c = 0 THEN lin ELSE c   \* curve[idx] || progress
               IN  <<G1 - cp, cp, cp>>
          [] OTHER -> <<G1 - lin, lin, lin>>
\* ---- operations ----

\* initialize(audioContext), App.tsx:535-558 (the player calls it once)
DJInitialize ==
    /\ ~dj_audioContext
    /\ dj_audioContext' = TRUE
    /\ dj_currentGain' = G1
    /\ dj_nextGain' = 0
    /\ lastOp' = [op |-> "dj.initialize", ret |-> TRUE]
    /\ UNCHANGED <<dj_currentAudio, dj_nextAudio, dj_transitionState,
                   dj_currentTransition, dj_playbackRate, dj_sourced, dj_loops,
                   dj_events, dj_accepted>>

\* prepareNextTrack(track, audioElement).  createMediaElementSource throws
\* for an element that already has a source; the catch returns false with
\* nextAudio already assigned.  Every source is connected to nextGain.
PrepareNextTrack(e) ==
    IF ~dj_audioContext
    THEN /\ lastOp' = [op |-> "prepareNextTrack", ret |-> FALSE]
         /\ UNCHANGED djVars
    ELSE /\ dj_nextAudio' = e
         /\ dj_sourced' = dj_sourced \cup {e}
         /\ lastOp' = [op |-> "prepareNextTrack", ret |-> (e \notin dj_sourced)]
         /\ UNCHANGED <<dj_audioContext, dj_currentAudio, dj_currentGain,
                        dj_nextGain, dj_transitionState, dj_currentTransition,
                        dj_playbackRate, dj_loops, dj_events, dj_accepted>>

\* Mutant of AnimationDuration: every type animated over transition.duration.
AnimationDurationAsPlanned(tr) == tr.duration \div TickMs

\* The duration each execute*Transition hands to the animation, in ticks.
AnimationDuration(tr) ==
    LET ms == CASE tr.transitionType = "energy_build" -> Min(tr.duration, 6000)
                [] tr.transitionType = "energy_drop" -> Max(tr.duration, 12000)
                [] OTHER -> tr.duration
    IN  ms \div TickMs

\* The closure animateTransition / animateTransitionWithCurve creates.
NewLoop(tr, tid) ==
    [tid |-> tid,
     type |-> IF tr.transitionType = "harmonic" THEN "curve" ELSE tr.transitionType,
     curve |-> IF tr.transitionType = "harmonic"
               THEN HarmonicCurveKind(tr.keyCompatibility) ELSE "none",
     duration |-> AnimationDuration(tr),
     elapsed |-> 0]

\* The fields of the executor an animate() call can touch, as one record.
DJState ==
    [currentAudio |-> dj_currentAudio, nextAudio |-> dj_nextAudio,
     currentGain |-> dj_currentGain, nextGain |-> dj_nextGain,
     transitionState |-> dj_transitionState,
     currentTransition |-> dj_currentTransition,
     playbackRate |-> dj_playbackRate, loops |-> dj_loops, events |-> dj_events]

\* completeTransition(), run by the animate() call that sees progress >= 1.
\* The event detail reads transitionState.toTrack after the reset above it.
CompleteTransition(st, loop) ==
    LET reset == [st.transitionState EXCEPT
                    !.isTransitioning = FALSE, !.progress = 0,
                    !.fromTrack = NoTrack, !.toTrack = NoTrack]
    IN  [st EXCEPT
           !.currentAudio = st.nextAudio,
           !.nextAudio = NoElem,
           !.currentGain = G1,
           !.nextGain = 0,
           !.playbackRate = IF st.nextAudio # NoElem
                            THEN [@ EXCEPT ![st.nextAudio] = 100] ELSE @,
           !.transitionState = reset,
           !.currentTransition = 0,
           !.events = Append(@, [track |-> reset.toTrack, tid |-> loop.tid]),
           !.loops = @ \ {loop}]

\* Mutant of Animate: the frame test is progress <= 1, so the callback is
\* requested again for ever and completeTransition is never reached.
AnimateNeverCompleting(st, loop) ==
    LET p == ProgressOf(loop)
        g == FrameGains(loop)
    IN  [st EXCEPT
           !.transitionState = [@ EXCEPT
               !.progress = p, !.fadeOutGain = g[1],
               !.fadeInGain = g[2], !.crossfadePosition = g[3]],
           !.currentGain = g[1],
           !.nextGain = g[2]]

\* One call of animate() (of animateTransition or animateTransitionWithCurve):
\* write progress and gains, then request the next frame (the closure stays
\* in loops) or complete.
Animate(st, loop) ==
    LET p == ProgressOf(loop)
        g == FrameGains(loop)
        written == [st EXCEPT
                      !.transitionState = [@ EXCEPT
                          !.progress = p, !.fadeOutGain = g[1],
                          !.fadeInGain = g[2], !.crossfadePosition = g[3]],
                      !.currentGain = g[1],
                      !.nextGain = g[2]]
    IN  IF p < P1 THEN written ELSE CompleteTransition(written, loop)

\* Mutant of NotReady: the guard without its isTransitioning test.
NotReadyIgnoringActive == ~dj_audioContext \/ dj_nextAudio = NoElem

\* The guard of executeTransition, App.tsx:592.
NotReady == ~dj_audioContext \/ dj_nextAudio = NoElem \/ dj_transitionState.isTransitioning

\* executeTransition(transition): the guard, the state update, the dispatch
\* by type and the first, synchronous call of animate().
ExecuteTransition(tr) ==
    IF NotReady
    THEN /\ lastOp' = [op |-> "executeTransition", ret |-> FALSE]
         /\ UNCHANGED djVars
    ELSE LET tid == Len(dj_accepted) + 1
             loop == NewLoop(tr, tid)
             started == [DJState EXCEPT
                           !.currentTransition = tid,
                           !.transitionState = [@ EXCEPT
                               !.isTransitioning = TRUE,
                               !.fromTrack = tr.fromTrack,
                               !.toTrack = tr.toTrack, !.progress = 0],
                           !.playbackRate =
                               IF tr.transitionType = "beatmatch"
                               THEN [@ EXCEPT ![dj_nextAudio] = tr.tempoAdjustment]
                               ELSE @,
                           !.loops = @ \cup {loop}]
             st == Animate(started, loop)
         IN  /\ tid <= MaxTransitions
             /\ dj_accepted' = Append(dj_accepted, tr.toTrack)
             /\ dj_currentAudio' = st.currentAudio
             /\ dj_nextAudio' = st.nextAudio
             /\ dj_currentGain' = st.currentGain
             /\ dj_nextGain' = st.nextGain
             /\ dj_transitionState' = st.transitionState
             /\ dj_currentTransition' = st.currentTransition
             /\ dj_playbackRate' = st.playbackRate
             /\ dj_loops' = st.loops
             /\ dj_events' = st.events
             /\ lastOp' = [op |-> "executeTransition", ret |-> TRUE]
             /\ UNCHANGED <<dj_audioContext, dj_sourced>>

\* The callbacks of one animation frame run in the order they were
\* requested, which is the order the transitions were accepted in.
RECURSIVE RunCallbacks(_, _)
RunCallbacks(st, pending) ==
    IF pending = {} THEN st
    ELSE LET loop == CHOOSE l \in pending : \A m \in pending : l.tid <= m.tid
         IN  RunCallbacks(Animate(st, loop), pending \ {loop})

\* performance.now() - startTime of every closure after dt more ticks
\* (beyond its duration a closure's progress stays clamped at 1).
Advance(loopSet, dt) ==
    { [l EXCEPT !.elapsed = Min(l.elapsed + dt, l.duration)] : l \in loopSet }

\* One animation frame, dt ticks after the previous one: every requested
\* animate() callback runs once.
\* lastOp.completed keeps the closures whose animate() call completed in this
\* frame, with the time that had elapsed since their animation started.
AnimationFrame(dt) ==
    /\ dj_loops # {}
    /\ \E st \in {RunCallbacks([DJState EXCEPT !.loops = Advance(dj_loops, dt)],
                                Advance(dj_loops, dt))} :
           /\ dj_currentAudio' = st.currentAudio
           /\ dj_nextAudio' = st.nextAudio
           /\ dj_currentGain' = st.currentGain
           /\ dj_nextGain' = st.nextGain
           /\ dj_transitionState' = st.transitionState
           /\ dj_currentTransition' = st.currentTransition
           /\ dj_playbackRate' = st.playbackRate
           /\ dj_loops' = st.loops
           /\ dj_events' = st.events
           /\ lastOp' = [op |-> "frame", ret |-> Len(st.events) > Len(dj_events),
                         completed |-> { l \in Advance(dj_loops, dt) :
                                           \A m \in st.loops : m.tid # l.tid }]
    /\ UNCHANGED <<dj_audioContext, dj_sourced, dj_accepted>>

\* setCrossfadePosition(position), position in 1/G1
SetCrossfadePosition(position) ==
    IF dj_currentGain = NoGain \/ dj_nextGain = NoGain
    THEN /\ lastOp' = [op |-> "setCrossfadePosition", ret |-> FALSE]
         /\ UNCHANGED djVars
    ELSE LET clampedPosition == Max(0, Min(G1, position))
         IN  /\ dj_currentGain' = G1 - clampedPosition
             /\ dj_nextGain' = clampedPosition
             /\ dj_transitionState' =
                  [dj_transitionState EXCEPT !.crossfadePosition = clampedPosition]
             /\ lastOp' = [op |-> "setCrossfadePosition", ret |-> TRUE]
             /\ UNCHANGED <<dj_audioContext, dj_currentAudio, dj_nextAudio,
                            dj_currentTransition, dj_playbackRate, dj_sourced,
                            dj_loops, dj_events, dj_accepted>>

\* stopTransition(): transitionTimeout and beatSyncInterval are never
\* assigned, so the two clear* branches are dead; only the flag is written.
StopTransition ==
    /\ dj_transitionState' = [dj_transitionState EXCEPT !.isTransitioning = FALSE]
    /\ lastOp' = [op |-> "stopTransition", ret |-> TRUE]
    /\ UNCHANGED <<dj_audioContext, dj_currentAudio, dj_nextAudio, dj_currentGain,
                   dj_nextGain, dj_currentTransition, dj_playbackRate, dj_sourced,
                   dj_loops, dj_events, dj_accepted>>

CrossfadePositions == {1500}
FrameSteps == {0, 1}

(***************************************************************************)
(*                             LoFiProcessor                               *)
(***************************************************************************)

MaxTimers == 3        \* setInterval calls made in one behaviour

NoData == [bass |-> -1, mid |-> -1, treble |-> -1]   \* frequencyData === null
NoValue == -1                                        \* node not created yet

\* Average byte magnitude of a frequency band (0..255): one value in each
\* branch of calculateDynamicAdjustments, all multiples of 51 so that
\* level/255 is an exact multiple of 0.2.
Levels == {0, 102, 255}
BandLevels == [bass : Levels, mid : Levels, treble : Levels]

\* The object literals applyLoFiPreset assigns (gain in 1/100).
LoFiPreset(preset) ==
    CASE preset = "chill" -> [filterFrequency |-> 2500, gain |-> 70, compression |-> 8]
      [] preset = "cafe"  -> [filterFrequency |-> 3500, gain |-> 80, compression |-> 6]
      [] preset = "study" -> [filterFrequency |-> 2000, gain |-> 60, compression |-> 12]
      [] preset = "party" -> [filterFrequency |-> 4000, gain |-> 90, compression |-> 4]

LPInit ==
    /\ lp_nodes = FALSE
    /\ lp_currentMood = "chill"
    /\ lp_baseMoodSettings = [filterFrequency |-> 2500, gain |-> 70, compression |-> 8]
    /\ lp_filter = NoValue
    /\ lp_gain = NoValue
    /\ lp_ratio = NoValue
    /\ lp_write = <<>>
    /\ lp_analysisInterval = 0
    /\ lp_isAnalyzing = FALSE
    /\ lp_visualMode = FALSE
    /\ lp_frequencyData = NoData
    /\ lp_timers = {}
    /\ lp_nextTimerId = 1

\* initialize(): creates the nodes and assigns their first values
LPInitialize ==
    /\ ~lp_nodes
    /\ lp_nodes' = TRUE
    /\ lp_filter' = 3000
    /\ lp_ratio' = 12
    /\ lp_gain' = 80
    /\ lp_write' = <<"value">>
    /\ lastOp' = [op |-> "lp.initialize", ret |-> TRUE]
    /\ UNCHANGED <<lp_currentMood, lp_baseMoodSettings, lp_analysisInterval,
                   lp_isAnalyzing, lp_visualMode, lp_frequencyData, lp_timers,
                   lp_nextTimerId>>

\* Mutant of TimersAfterStop: the handle is forgotten without clearInterval.
TimersKept == lp_timers

\* clearInterval(analysisInterval) as stopRealtimeAnalysis does it
TimersAfterStop == { t \in lp_timers : t.id # lp_analysisInterval }

\* applyLoFiPreset(preset), with the startRealtimeAnalysis() it ends in
\* (which begins with stopRealtimeAnalysis()).
ApplyLoFiPreset(preset) ==
    IF ~lp_nodes
    THEN /\ lastOp' = [op |-> "applyLoFiPreset", ret |-> FALSE]
         /\ UNCHANGED lpVars
    ELSE /\ lp_nextTimerId <= MaxTimers
         /\ lp_currentMood' = preset
         /\ lp_baseMoodSettings' = LoFiPreset(preset)
         \* .value = base, then stopRealtimeAnalysis retargets to the new base
         /\ lp_filter' = LoFiPreset(preset).filterFrequency
         /\ lp_gain' = LoFiPreset(preset).gain
         /\ lp_ratio' = LoFiPreset(preset).compression
         /\ lp_write' = <<"value", "target">>
         /\ lp_isAnalyzing' = TRUE
         /\ lp_analysisInterval' = lp_nextTimerId
         /\ lp_timers' = TimersAfterStop \cup {[id |-> lp_nextTimerId, kind |-> "realtime"]}
         /\ lp_nextTimerId' = lp_nextTimerId + 1
         /\ lastOp' = [op |-> "applyLoFiPreset", ret |-> TRUE]
         /\ UNCHANGED <<lp_nodes, lp_visualMode, lp_frequencyData>>

\* calculateDynamicAdjustments(bass, mid, treble); gainAdjust in 1/100
CalculateDynamicAdjustments(bass, mid, treble) ==
    [filterAdjust |->
        (IF bass > 180 THEN -300 ELSE IF bass < 80 THEN 200 ELSE 0)
        + (IF treble > 180 THEN -150 ELSE IF treble < 60 THEN 100 ELSE 0),
     gainAdjust |-> IF mid > 160 THEN 5 ELSE IF mid < 80 THEN -5 ELSE 0,
     compressionAdjust |-> IF treble > 180 THEN -2 ELSE 0]

\* the three targets applyDynamicAdjustments schedules
DynamicAdjustmentTargets(adj) ==
    [filter |-> Max(1000, Min(8000, lp_baseMoodSettings.filterFrequency + adj.filterAdjust)),
     gain |-> Max(30, Min(100, lp_baseMoodSettings.gain + adj.gainAdjust)),
     ratio |-> Max(2, Min(20, lp_baseMoodSettings.compression + adj.compressionAdjust))]

\* Mutant of DynamicEffectsTargets: the gain target without Math.min(1.0, ...).
DynamicEffectsTargetsUnclamped(d) ==
    [filter |-> lp_baseMoodSettings.filterFrequency + (d.treble * 1000) \div 255,
     gain |-> lp_baseMoodSettings.gain + ((d.bass + d.mid) * 10) \div 255]

\* the two targets applyDynamicEffects schedules (bass, mid, treble are
\* getFrequencyRange results: level/255)
DynamicEffectsTargets(d) ==
    [filter |-> lp_baseMoodSettings.filterFrequency + (d.treble * 1000) \div 255,
     gain |-> Min(100, lp_baseMoodSettings.gain + ((d.bass + d.mid) * 10) \div 255)]

\* Mutant of RealtimeTick: the adjustment is applied in place, so the adjusted
\* values become the stored base settings.
RealtimeTickInPlace(t, d) ==
    /\ t.kind = "realtime"
    /\ IF ~lp_nodes \/ ~lp_isAnalyzing
       THEN /\ lastOp' = [op |-> "lp.tick", ret |-> FALSE]
            /\ UNCHANGED lpVars
       ELSE LET tg == DynamicAdjustmentTargets(
                        CalculateDynamicAdjustments(d.bass, d.mid, d.treble))
            IN  /\ lp_filter' = tg.filter
                /\ lp_gain' = tg.gain
                /\ lp_ratio' = tg.ratio
                /\ lp_baseMoodSettings' =
                     [filterFrequency |-> tg.filter, gain |-> tg.gain,
                      compression |-> tg.ratio]
                /\ lp_write' = <<"target">>
                /\ lastOp' = [op |-> "lp.tick", ret |-> TRUE]
                /\ UNCHANGED <<lp_nodes, lp_currentMood, lp_analysisInterval,
                               lp_isAnalyzing, lp_visualMode, lp_frequencyData,
                               lp_timers, lp_nextTimerId>>

\* One firing of the interval startRealtimeAnalysis registered.
RealtimeTick(t, d) ==
    /\ t.kind = "realtime"
    /\ IF ~lp_nodes \/ ~lp_isAnalyzing
       THEN /\ lastOp' = [op |-> "lp.tick", ret |-> FALSE]
            /\ UNCHANGED lpVars
       ELSE LET tg == DynamicAdjustmentTargets(
                        CalculateDynamicAdjustments(d.bass, d.mid, d.treble))
            IN  /\ lp_filter' = tg.filter
                /\ lp_gain' = tg.gain
                /\ lp_ratio' = tg.ratio
                /\ lp_write' = <<"target">>
                /\ lastOp' = [op |-> "lp.tick", ret |-> TRUE]
                /\ UNCHANGED <<lp_nodes, lp_currentMood, lp_baseMoodSettings,
                               lp_analysisInterval, lp_isAnalyzing, lp_visualMode,
                               lp_frequencyData, lp_timers, lp_nextTimerId>>

\* One firing of the interval startAnalysis registered: updateRealtimeEffects.
\* d is what the analyser would deliver; it is read only outside visual mode.
EffectsTick(t, d) ==
    /\ t.kind = "effects"
    /\ IF ~lp_nodes \/ lp_frequencyData = NoData
       THEN /\ lastOp' = [op |-> "lp.tick", ret |-> FALSE]
            /\ UNCHANGED lpVars
       ELSE LET data == IF ~lp_visualMode THEN d ELSE lp_frequencyData
                tg == DynamicEffectsTargets(data)
            IN  /\ lp_frequencyData' = data
                /\ lp_filter' = tg.filter
                /\ lp_gain' = tg.gain
                /\ lp_write' = <<"target">>
                /\ lastOp' = [op |-> "lp.tick", ret |-> TRUE]
                /\ UNCHANGED <<lp_nodes, lp_currentMood, lp_baseMoodSettings,
                               lp_ratio, lp_analysisInterval, lp_isAnalyzing,
                               lp_visualMode, lp_timers, lp_nextTimerId>>

\* One firing of the interval createMockAudioAnalysis registered:
\* updateFakeData refills frequencyData.
MockTick(t, d) ==
    /\ t.kind = "mock"
    /\ lp_frequencyData # NoData
    /\ lp_frequencyData' = d
    /\ lastOp' = [op |-> "lp.mock", ret |-> TRUE]
    /\ UNCHANGED <<lp_nodes, lp_currentMood, lp_baseMoodSettings, lp_filter,
                   lp_gain, lp_ratio, lp_write, lp_analysisInterval,
                   lp_isAnalyzing, lp_visualMode, lp_timers, lp_nextTimerId>>

\* createMockAudioAnalysis(): a zeroed array and one more interval that is
\* never cleared; returns early without an analyser node.
MockData == IF lp_nodes THEN [bass |-> 0, mid |-> 0, treble |-> 0] ELSE lp_frequencyData
MockTimers(id) == IF lp_nodes THEN {[id |-> id, kind |-> "mock"]} ELSE {}
MockIds == IF lp_nodes THEN 1 ELSE 0

\* enableVisualMode()
EnableVisualMode ==
    /\ lp_nextTimerId + MockIds - 1 <= MaxTimers
    /\ lp_visualMode' = TRUE
    /\ lp_frequencyData' = MockData
    /\ lp_timers' = lp_timers \cup MockTimers(lp_nextTimerId)
    /\ lp_nextTimerId' = lp_nextTimerId + MockIds
    /\ lastOp' = [op |-> "enableVisualMode", ret |-> TRUE]
    /\ UNCHANGED <<lp_nodes, lp_currentMood, lp_baseMoodSettings, lp_filter,
                   lp_gain, lp_ratio, lp_write, lp_analysisInterval, lp_isAnalyzing>>

\* Mutant of StartAnalysis: without the early return on isAnalyzing.
StartAnalysisUnguarded ==
    LET mock == IF lp_visualMode THEN MockIds ELSE 0
        id == lp_nextTimerId + mock
    IN  /\ id <= MaxTimers
        /\ lp_isAnalyzing' = TRUE
        /\ lp_frequencyData' = IF lp_visualMode THEN MockData ELSE lp_frequencyData
        /\ lp_timers' = lp_timers
                        \cup (IF lp_visualMode THEN MockTimers(lp_nextTimerId) ELSE {})
                        \cup {[id |-> id, kind |-> "effects"]}
        /\ lp_analysisInterval' = id
        /\ lp_nextTimerId' = id + 1
        /\ lastOp' = [op |-> "startAnalysis", ret |-> TRUE]
        /\ UNCHANGED <<lp_nodes, lp_currentMood, lp_baseMoodSettings, lp_filter,
                       lp_gain, lp_ratio, lp_write, lp_visualMode>>

\* startAnalysis()
StartAnalysis ==
    IF lp_isAnalyzing
    THEN /\ lastOp' = [op |-> "startAnalysis", ret |-> FALSE]
         /\ UNCHANGED lpVars
    ELSE LET mock == IF lp_visualMode THEN MockIds ELSE 0
             id == lp_nextTimerId + mock
         IN  /\ id <= MaxTimers
             /\ lp_isAnalyzing' = TRUE
             /\ lp_frequencyData' = IF lp_visualMode THEN MockData ELSE lp_frequencyData
             /\ lp_timers' = lp_timers
                             \cup (IF lp_visualMode THEN MockTimers(lp_nextTimerId) ELSE {})
                             \cup {[id |-> id, kind |-> "effects"]}
             /\ lp_analysisInterval' = id
             /\ lp_nextTimerId' = id + 1
             /\ lastOp' = [op |-> "startAnalysis", ret |-> TRUE]
             /\ UNCHANGED <<lp_nodes, lp_currentMood, lp_baseMoodSettings, lp_filter,
                            lp_gain, lp_ratio, lp_write, lp_visualMode>>

\* dispose(): stopRealtimeAnalysis() (clear the interval, retarget to the
\* base preset when the nodes exist), then the same clearing once more.
LPDispose ==
    /\ lp_timers' = TimersAfterStop
    /\ lp_analysisInterval' = 0
    /\ lp_isAnalyzing' = FALSE
    /\ lp_filter' = IF lp_nodes THEN lp_baseMoodSettings.filterFrequency ELSE lp_filter
    /\ lp_gain' = IF lp_nodes THEN lp_baseMoodSettings.gain ELSE lp_gain
    /\ lp_ratio' = IF lp_nodes THEN lp_baseMoodSettings.compression ELSE lp_ratio
    /\ lp_write' = IF lp_nodes THEN <<"target">> ELSE <<>>
    /\ lastOp' = [op |-> "lp.dispose", ret |-> TRUE]
    /\ UNCHANGED <<lp_nodes, lp_currentMood, lp_baseMoodSettings, lp_visualMode,
                   lp_frequencyData, lp_nextTimerId>>

(***************************************************************************)
(*                       RealTimeAudioTransformer                          *)
(***************************************************************************)

\* getDefaultSettings(mood): the fields the effect chain reads back
\* (frequencies in Hz, compressionRatio as written in the source).
GetDefaultSettings(mood) ==
    CASE mood = "chill" -> [lowPassFreq |-> 2500, highPassFreq |-> 60, compressionRatio |-> 6]
      [] mood = "cafe"  -> [lowPassFreq |-> 3200, highPassFreq |-> 80, compressionRatio |-> 4]
      [] mood = "study" -> [lowPassFreq |-> 2000, highPassFreq |-> 100, compressionRatio |-> 8]
      [] mood = "party" -> [lowPassFreq |-> 4000, highPassFreq |-> 40, compressionRatio |-> 3]

\* adjustParameter calls: one per field the adaptive frame reads back
Adjustments == {<<"lowPassFreq", 9000>>, <<"compressionRatio", 1>>}
\* Analyser frames: silence, and a full-scale high band over a silent bin
Signals == {<<0, 0>>, <<255, 255>>}

RTInit ==
    /\ rt_nodes = FALSE
    /\ rt_isProcessing = FALSE
    /\ rt_frame = FALSE
    /\ rt_currentSettings = GetDefaultSettings("chill")
    /\ rt_lowPass = NoValue
    /\ rt_ratio = NoValue

\* initialize() with createEffectChain()
RTInitialize ==
    /\ ~rt_nodes
    /\ rt_nodes' = TRUE
    /\ rt_lowPass' = 3000
    /\ rt_ratio' = 80
    /\ lastOp' = [op |-> "rt.initialize", ret |-> TRUE]
    /\ UNCHANGED <<rt_isProcessing, rt_frame, rt_currentSettings>>

\* adaptiveProcessing(): highFreqs is the average of bins 170..254,
\* dynamicRange is max - min over the array (both 0..255).
AdaptiveLowPass(highFreqs) ==
    Max(1000, Min(8000, rt_currentSettings.lowPassFreq + (highFreqs * 500) \div 255))
AdaptiveRatio(dynamicRange) ==
    Max(20, Min(200, rt_currentSettings.compressionRatio * 10 + (dynamicRange * 40) \div 255))

\* connectToAudioElement(): startRealTimeProcessing() runs processFrame()
\* once synchronously and leaves the next frame requested.
RTConnect(highFreqs, dynamicRange) ==
    IF ~rt_nodes \/ rt_isProcessing
    THEN /\ lastOp' = [op |-> "rt.connect", ret |-> FALSE]
         /\ UNCHANGED rtVars
    ELSE /\ rt_isProcessing' = TRUE
         /\ rt_frame' = TRUE
         /\ rt_lowPass' = AdaptiveLowPass(highFreqs)
         /\ rt_ratio' = AdaptiveRatio(dynamicRange)
         /\ lastOp' = [op |-> "rt.connect", ret |-> TRUE]
         /\ UNCHANGED <<rt_nodes, rt_currentSettings>>

\* One run of the processFrame callback.
RTFrame(highFreqs, dynamicRange) ==
    /\ rt_frame
    /\ IF ~rt_isProcessing
       THEN /\ rt_frame' = FALSE
            /\ lastOp' = [op |-> "rt.frame", ret |-> FALSE]
            /\ UNCHANGED <<rt_nodes, rt_isProcessing, rt_currentSettings,
                           rt_lowPass, rt_ratio>>
       ELSE /\ rt_lowPass' = AdaptiveLowPass(highFreqs)
            /\ rt_ratio' = AdaptiveRatio(dynamicRange)
            /\ lastOp' = [op |-> "rt.frame", ret |-> TRUE]
            /\ UNCHANGED <<rt_nodes, rt_isProcessing, rt_frame, rt_currentSettings>>

\* updateEffectParameters() applied to the settings it is about to read
UpdatedLowPass(settings) == IF rt_nodes THEN settings.lowPassFreq ELSE rt_lowPass
UpdatedRatio(settings) == IF rt_nodes THEN settings.compressionRatio * 10 ELSE rt_ratio

\* applyMoodPreset(mood)
ApplyMoodPreset(mood) ==
    /\ rt_currentSettings' = GetDefaultSettings(mood)
    /\ rt_lowPass' = UpdatedLowPass(GetDefaultSettings(mood))
    /\ rt_ratio' = UpdatedRatio(GetDefaultSettings(mood))
    /\ lastOp' = [op |-> "applyMoodPreset", ret |-> mood]
    /\ UNCHANGED <<rt_nodes, rt_isProcessing, rt_frame>>

\* adjustParameter(param, value)
AdjustParameter(param, value) ==
    LET settings == [rt_currentSettings EXCEPT ![param] = value]
    IN  /\ rt_currentSettings' = settings
        /\ rt_lowPass' = UpdatedLowPass(settings)
        /\ rt_ratio' = UpdatedRatio(settings)
        /\ lastOp' = [op |-> "adjustParameter", ret |-> TRUE]
        /\ UNCHANGED <<rt_nodes, rt_isProcessing, rt_frame>>

\* dispose()
RTDispose ==
    /\ rt_isProcessing' = FALSE
    /\ lastOp' = [op |-> "rt.dispose", ret |-> TRUE]
    /\ UNCHANGED <<rt_nodes, rt_frame, rt_currentSettings, rt_lowPass, rt_ratio>>

(***************************************************************************)
(*                               AIDJEngine                                *)
(***************************************************************************)

NumPool == 4          \* TrackAnalysis objects the engine holds
MaxInput == 3         \* longest list handed to optimizeTrackOrder

NoRef == 0            \* null
Refs == 1..NumPool    \* object identities of the TrackAnalysis records

\* Audio features of the analysed tracks: tempo in BPM, key a pitch class,
\* the [0,1] descriptors in 1/100.  Objects r and r+3 carry equal values.
FeatureTable ==
    << [tempo |-> 90,  key |-> 0, energy |-> 20, valence |-> 50, danceability |-> 40,
        acousticness |-> 80, instrumentalness |-> 70, speechiness |-> 5],
       [tempo |-> 124, key |-> 7, energy |-> 60, valence |-> 70, danceability |-> 75,
        acousticness |-> 30, instrumentalness |-> 20, speechiness |-> 10],
       [tempo |-> 150, key |-> 6, energy |-> 90, valence |-> 40, danceability |-> 75,
        acousticness |-> 10, instrumentalness |-> 50, speechiness |-> 30] >>
AudioFeatures(r) == FeatureTable[((r - 1) % 3) + 1]

\* Mutant of CalculateMoodScores: the party score takes the tempo without
\* the division by 200.
CalculateMoodScoresTempoUnscaled(f) ==
    [chill |-> 80 * (100 - f.energy) + 60 * f.acousticness + 28 * f.valence
               + 20 * (100 - f.danceability),
     cafe  |-> 36 * f.energy + 50 * f.acousticness + 60 * f.valence
               + 21 * f.danceability,
     study |-> 70 * (100 - f.energy) + 80 * f.instrumentalness
               + 30 * (100 - f.speechiness) + 10 * f.valence,
     party |-> 80 * f.energy + 70 * f.danceability + 40 * f.valence + 1000 * f.tempo]

\* calculateMoodScores(features), in 1/20000
CalculateMoodScores(f) ==
    [chill |-> 80 * (100 - f.energy) + 60 * f.acousticness + 28 * f.valence
               + 20 * (100 - f.danceability),
     cafe  |-> 36 * f.energy + 50 * f.acousticness + 60 * f.valence
               + 21 * f.danceability,
     study |-> 70 * (100 - f.energy) + 80 * f.instrumentalness
               + 30 * (100 - f.speechiness) + 10 * f.valence,
     party |-> 80 * f.energy + 70 * f.danceability + 40 * f.valence + 5 * f.tempo]

\* calculateMixingCompatibility(features), in 1/1000
CalculateMixingCompatibility(f) ==
    3 * f.danceability + (IF f.tempo > 80 /\ f.tempo < 140 THEN 300 ELSE 100)
    + 2 * f.energy + 2 * (100 - f.speechiness)

\* The TrackAnalysis analyzeTracks builds for object r.
TrackPool ==
    [r \in Refs |->
       [id |-> r, audioFeatures |-> AudioFeatures(r),
        moodScore |-> CalculateMoodScores(AudioFeatures(r)),
        mixingCompatibility |-> CalculateMixingCompatibility(AudioFeatures(r))]]

\* const circleOfFifths and circleOfFifths.indexOf(key)
CircleOfFifths == <<0, 7, 2, 9, 4, 11, 6, 1, 8, 3, 10, 5>>
CirclePos(key) ==
    IF \E i \in 1..12 : CircleOfFifths[i] = key
    THEN (CHOOSE i \in 1..12 : CircleOfFifths[i] = key) - 1
    ELSE -1
\* Mutant of CalculateKeyDistance: no wrap around the circle.
CalculateKeyDistanceNoWrap(key1, key2) ==
    IF CirclePos(key1) = -1 \/ CirclePos(key2) = -1 THEN 6
    ELSE Abs(CirclePos(key1) - CirclePos(key2))

\* Mutant of CalculateKeyDistance: equal key values compared before the
\* lookup.
CalculateKeyDistanceEqualFirst(key1, key2) ==
    IF key1 = key2 THEN 0
    ELSE IF CirclePos(key1) = -1 \/ CirclePos(key2) = -1 THEN 6
    ELSE Min(Abs(CirclePos(key1) - CirclePos(key2)),
             12 - Abs(CirclePos(key1) - CirclePos(key2)))

\* calculateKeyDistance(key1, key2)
CalculateKeyDistance(key1, key2) ==
    LET pos1 == CirclePos(key1)
        pos2 == CirclePos(key2)
        distance == Abs(pos1 - pos2)
    IN  IF pos1 = -1 \/ pos2 = -1 THEN 6 ELSE Min(distance, 12 - distance)

\* calculateTransitionScore(from, to) under this.currentMood, in 1/600000
CalculateTransitionScore(from, to, mood) ==
    (180000 - 1800 * Abs(from.audioFeatures.tempo - to.audioFeatures.tempo))
    + (150000 - 25000 * CalculateKeyDistance(from.audioFeatures.key, to.audioFeatures.key))
    + (150000 - 1500 * Abs(from.audioFeatures.energy - to.audioFeatures.energy))
    + 6 * to.moodScore[mood]

\* Mutant of IndexOf: the position of the element before the one found.
IndexOfOffByOne(seq, x) ==
    IF \E i \in 1..Len(seq) : seq[i] = x
    THEN (CHOOSE i \in 1..Len(seq) : seq[i] = x /\ \A j \in 1..(i - 1) : seq[j] # x) - 1
    ELSE 0

\* calculateTransitionScore of every pair of pool objects under every mood
TransitionScores ==
    [mood \in Moods |-> [from \in Refs |-> [to \in Refs |->
        CalculateTransitionScore(TrackPool[from], TrackPool[to], mood)]]]

\* Array.prototype.indexOf (1-based; 0 when absent) and splice(index, 1)
\* (index -1, i.e. 0 here, removes the last element).
IndexOf(seq, x) ==
    IF \E i \in 1..Len(seq) : seq[i] = x
    THEN CHOOSE i \in 1..Len(seq) : seq[i] = x /\ \A j \in 1..(i - 1) : seq[j] # x
    ELSE 0
SpliceOne(seq, index) ==
    LET i == IF index = 0 THEN Len(seq) ELSE index
    IN  [k \in 1..(Len(seq) - 1) |-> IF k < i THEN seq[k] ELSE seq[k + 1]]

\* Mutant of RemoveTrack: slice in place of splice, which removes nothing.
RemoveTrackBySlice(remaining, track) == remaining

\* remaining.splice(remaining.indexOf(track), 1)
RemoveTrack(remaining, track) == SpliceOne(remaining, IndexOf(remaining, track))

\* scored.sort((a, b) => b.score - a.score): stable, descending
RECURSIVE SortByScore(_, _)
SortByScore(seq, score) ==
    IF seq = <<>> THEN <<>>
    ELSE LET i == CHOOSE i \in 1..Len(seq) :
                    /\ \A j \in 1..Len(seq) : score[seq[j]] <= score[seq[i]]
                    /\ \A j \in 1..(i - 1) : score[seq[j]] < score[seq[i]]
         IN  <<seq[i]>> \o SortByScore(SpliceOne(seq, i), score)

\* The weighted draw of getNextTrack: weights[i] || 0.1, in 1/100.
Weight(i) == IF i = 1 THEN 50 ELSE IF i = 2 THEN 30 ELSE IF i = 3 THEN 20 ELSE 10
RECURSIVE Cumulative(_)
Cumulative(i) == IF i = 0 THEN 0 ELSE Cumulative(i - 1) + Weight(i)

\* Mutant of GetNextTrack: the scored list is not sorted before the slice.
GetNextTrackUnsorted(current, remainingTracks, random, mood) ==
    IF Len(remainingTracks) = 0 THEN NoRef
    ELSE LET topCandidates == SubSeq(remainingTracks, 1, Min(3, Len(remainingTracks)))
             hits == { i \in 1..Len(topCandidates) : random < Cumulative(i) }
         IN  IF hits # {}
             THEN topCandidates[CHOOSE i \in hits : \A j \in hits : i <= j]
             ELSE topCandidates[1]

\* getNextTrack(currentTrack, remainingTracks) with Math.random() = random/100
GetNextTrack(current, remainingTracks, random, mood) ==
    IF Len(remainingTracks) = 0 THEN NoRef
    ELSE LET score == TransitionScores[mood][current]
             scored == SortByScore(remainingTracks, score)
             topCandidates == SubSeq(scored, 1, Min(3, Len(scored)))
             hits == { i \in 1..Len(topCandidates) : random < Cumulative(i) }
         IN  IF hits # {}
             THEN topCandidates[CHOOSE i \in hits : \A j \in hits : i <= j]
             ELSE topCandidates[1]

\* remaining.reduce((best, track) => track.mc > best.mc ? track : best)
RECURSIVE BestStart(_, _)
BestStart(seq, n) ==
    IF n = 1 THEN seq[1]
    ELSE LET best == BestStart(seq, n - 1)
         IN  IF TrackPool[seq[n]].mixingCompatibility > TrackPool[best].mixingCompatibility
             THEN seq[n] ELSE best

Randoms == {0, 50, 80}

InputLists == UNION { [1..n -> Refs] : n \in 0..MaxInput }

ENInit ==
    /\ en_currentMood \in Moods
    /\ en_input \in InputLists
    /\ en_pc = "call"
    /\ en_optimized = <<>>
    /\ en_remaining = <<>>
    /\ en_result = <<>>
    /\ en_calls = 0

\* optimizeTrackOrder(tracks) up to the while loop: the early return for at
\* most one track, or the choice and removal of the opening track.
OptimizeStart ==
    /\ en_pc = "call"
    /\ IF Len(en_input) <= 1
       THEN /\ en_result' = en_input
            /\ en_pc' = "done"
            /\ UNCHANGED <<en_optimized, en_remaining>>
       ELSE LET startTrack == BestStart(en_input, Len(en_input))
            IN  /\ en_optimized' = <<startTrack>>
                /\ en_remaining' = RemoveTrack(en_input, startTrack)
                /\ en_pc' = "loop"
                /\ UNCHANGED en_result
    /\ lastOp' = [op |-> "optimizeTrackOrder", ret |-> TRUE]
    /\ UNCHANGED <<en_currentMood, en_input, en_calls>>

\* One iteration of the while loop; when it leaves the loop (remaining is
\* empty, or the fallback's break) the function returns optimized.
OptimizeStep(random) ==
    /\ en_pc = "loop"
    /\ LET current == en_optimized[Len(en_optimized)]
           next == GetNextTrack(current, en_remaining, random, en_currentMood)
           optimized == IF next # NoRef THEN Append(en_optimized, next)
                        ELSE en_optimized \o en_remaining
           remaining == IF next # NoRef
                        THEN RemoveTrack(en_remaining, next)
                        ELSE en_remaining
           leave == next = NoRef \/ Len(remaining) = 0
       IN  /\ en_optimized' = optimized
           /\ en_remaining' = remaining
           /\ en_calls' = en_calls + 1
           /\ en_pc' = IF leave THEN "done" ELSE "loop"
           /\ en_result' = IF leave THEN optimized ELSE en_result
           /\ lastOp' = [op |-> "getNextTrack", ret |-> next]
    /\ UNCHANGED <<en_currentMood, en_input>>

\* ---- analyzeTracks and createMoodPlaylist ----
NumIds == 3           \* distinct track ids in the data handed to analyzeTracks
MaxPool == 3          \* longest track list handed to analyzeTracks
MaxPlaylist == 5      \* largest maxTracks handed to createMoodPlaylist

\* Track lists handed to analyzeTracks: a list of track ids, the same id may
\* occur more than once.  A track's audio_features go with its id.
TrackLists == UNION { [1..n -> 1..NumIds] : n \in 0..MaxPool }

\* analyzeTracks(trackData): trackData.map builds one new TrackAnalysis
\* object per element; the object's identity is its index in this.tracks.
TrackAnalyses(trackData) ==
    [i \in 1..Len(trackData) |->
        [id |-> trackData[i],
         audioFeatures |-> AudioFeatures(trackData[i]),
         moodScore |-> CalculateMoodScores(AudioFeatures(trackData[i])),
         mixingCompatibility |->
             CalculateMixingCompatibility(AudioFeatures(trackData[i]))]]
AnalyzeTracks(trackData) ==
    /\ en_tracks' = TrackAnalyses(trackData)
    /\ lastOp' = [op |-> "analyzeTracks", ret |-> TRUE]
    /\ UNCHANGED <<enVars, fn_args, fn_result, fn_first, fn_calls>>

\* Math.sin(k / 10), in 1/1000, for k = 0..35 (SinTenths[k + 1])
SinTenths ==
    <<0, 100, 199, 296, 389, 479, 565, 644, 717, 783, 841, 891, 932, 964, 985,
      997, 1000, 992, 974, 946, 909, 863, 808, 746, 675, 598, 516, 427, 335,
      239, 141, 42, -58, -158, -256, -351>>

\* Math.random() in generateEnergyFlow, in 1/1000
FlowRandoms == {0, 999}

\* generateEnergyFlow(mood, trackCount)[i] (i from 0), in 1/1000, with
\* Math.random() = random/1000 for that element
EnergyTarget(mood, i, trackCount, random) ==
    LET x == CASE mood = "chill" ->
                    200 + (SinTenths[3 * i + 1] * 150) \div 1000 + random \div 10
               [] mood = "cafe" ->
                    400 + (SinTenths[2 * i + 1] * 200) \div 1000 + random \div 10
               [] mood = "study" -> 250 + random \div 10
               [] OTHER ->
                    500 + (i * 300) \div trackCount + (SinTenths[5 * i + 1] * 200) \div 1000
    IN  Max(100, Min(900, x))

\* sortedTracks.find(pred): the first object of sorted satisfying pred, as a
\* position in sorted (0: undefined)
FirstUnselected(sorted, selected) ==
    LET hits == { k \in 1..Len(sorted) :
                    \A j \in 1..Len(selected) : selected[j] # sorted[k] }
    IN  IF hits = {} THEN 0 ELSE CHOOSE k \in hits : \A j \in hits : k <= j
FirstMatching(sorted, selected, mood, target) ==
    LET hits == { k \in 1..Len(sorted) :
                    /\ \A j \in 1..Len(selected) : selected[j] # sorted[k]
                    /\ Abs(10 * en_tracks[sorted[k]].audioFeatures.energy - target) < 300
                    /\ en_tracks[sorted[k]].moodScore[mood] > 8000 }
    IN  IF hits = {} THEN 0 ELSE CHOOSE k \in hits : \A j \in hits : k <= j

\* Mutant of PickCandidate: the second find alone, whatever the energy.
PickCandidateFallbackOnly(sorted, selected, mood, target) ==
    FirstUnselected(sorted, selected)

\* Mutant of PickCandidate: the first find without its || fallback.
PickCandidateNoFallback(sorted, selected, mood, target) ==
    FirstMatching(sorted, selected, mood, target)

\* const candidate = sortedTracks.find(...) || sortedTracks.find(...)
PickCandidate(sorted, selected, mood, target) ==
    IF FirstMatching(sorted, selected, mood, target) # 0
    THEN FirstMatching(sorted, selected, mood, target)
    ELSE FirstUnselected(sorted, selected)

\* The for loop of createMoodPlaylist from iteration i (from 0) on.
RECURSIVE BuildPlaylist(_, _, _, _, _, _)
BuildPlaylist(sorted, mood, maxTracks, randoms, i, selected) ==
    IF i >= Min(maxTracks, Len(sorted)) THEN selected
    ELSE LET k == PickCandidate(sorted, selected, mood,
                                EnergyTarget(mood, i, maxTracks, randoms[i + 1]))
         IN  BuildPlaylist(sorted, mood, maxTracks, randoms, i + 1,
                           IF k # 0 THEN Append(selected, sorted[k]) ELSE selected)

\* The list createMoodPlaylist returns: the sort and the loop.
MoodPlaylist(mood, maxTracks, randoms) ==
    LET score == [i \in 1..Len(en_tracks) |-> en_tracks[i].moodScore[mood]]
        sortedTracks == SortByScore([i \in 1..Len(en_tracks) |-> i], score)
    IN  BuildPlaylist(sortedTracks, mood, maxTracks, randoms, 0, <<>>)

\* createMoodPlaylist(mood, maxTracks); randoms[i + 1] is the Math.random()
\* drawn for energy target i.  The result lists objects of this.tracks.
\* this.energyFlow, which the call also assigns, is read by no method and is
\* not part of the state.
CreateMoodPlaylist(mood, maxTracks, randoms) ==
    /\ fn_args' = [mood |-> mood, maxTracks |-> maxTracks]
    /\ fn_result' = MoodPlaylist(mood, maxTracks, randoms)
    /\ fn_calls' = 1
    /\ lastOp' = [op |-> "createMoodPlaylist", ret |-> TRUE]
    /\ UNCHANGED <<enVars, en_tracks, fn_first>>

\* createMoodPlaylist(mood, maxTracks) on the arguments and draws held in
\* fn_args
Curate ==
    /\ fn_result' = MoodPlaylist(fn_args.mood, fn_args.maxTracks, fn_args.randoms)
    /\ lastOp' = [op |-> "createMoodPlaylist", ret |-> TRUE]
    /\ UNCHANGED <<enVars, en_tracks, fn_args, fn_first, fn_calls>>

\* ---- calculateTransition ----
MaxCalls == 2         \* calculateTransition calls made in one behaviour

\* setMood(mood)
SetMood(mood) ==
    /\ en_currentMood' = mood
    /\ lastOp' = [op |-> "setMood", ret |-> TRUE]
    /\ UNCHANGED <<en_input, en_pc, en_optimized, en_remaining, en_result,
                   en_calls, fnVars>>

\* tempoAdjustment values that are no number in [0.8, 1.2]
NaN == -1000000

\* toTrack.audioFeatures.tempo / fromTrack.audioFeatures.tempo, kept as the
\* exact fraction; den = 0 is the float division by zero (Infinity when
\* num > 0, NaN when num = 0).
TempoRatio(fromTrack, toTrack) ==
    [num |-> toTrack.audioFeatures.tempo, den |-> fromTrack.audioFeatures.tempo]

\* Mutant of NearUnity: only equal tempos match.
NearUnityExact(tempoRatio) ==
    tempoRatio.den > 0 /\ tempoRatio.num = tempoRatio.den

\* Math.abs(tempoRatio - 1) < 0.1 (false for Infinity and NaN)
NearUnity(tempoRatio) ==
    tempoRatio.den > 0 /\ 10 * Abs(tempoRatio.num - tempoRatio.den) < tempoRatio.den

\* Mutant of Classify: the harmonic test made before the beatmatch test.
ClassifyHarmonicFirst(tempoRatio, keyDistance, energyDiff) ==
    IF keyDistance <= 1
    THEN [transitionType |-> "harmonic", duration |-> 12000]
    ELSE IF NearUnity(tempoRatio) /\ keyDistance <= 2
    THEN [transitionType |-> "beatmatch", duration |-> 16000]
    ELSE IF energyDiff > 30
    THEN [transitionType |-> "energy_build", duration |-> 10000]
    ELSE [transitionType |-> "crossfade", duration |-> 8000]

\* Mutant of Classify: the duration halved while the engine's mood is party.
ClassifyByMood(tempoRatio, keyDistance, energyDiff) ==
    IF en_currentMood = "party"
    THEN [transitionType |-> "crossfade", duration |-> 4000]
    ELSE ClassifyHarmonicFirst(tempoRatio, keyDistance, energyDiff)

\* Mutant of Classify: harmonic up to a key distance of 2.
ClassifyHarmonicWithinTwo(tempoRatio, keyDistance, energyDiff) ==
    IF NearUnity(tempoRatio) /\ keyDistance <= 2
    THEN [transitionType |-> "beatmatch", duration |-> 16000]
    ELSE IF keyDistance <= 2
    THEN [transitionType |-> "harmonic", duration |-> 12000]
    ELSE IF energyDiff > 30
    THEN [transitionType |-> "energy_build", duration |-> 10000]
    ELSE [transitionType |-> "crossfade", duration |-> 8000]

\* The if / else-if chain of calculateTransition; energyDiff in 1/100.
Classify(tempoRatio, keyDistance, energyDiff) ==
    IF NearUnity(tempoRatio) /\ keyDistance <= 2
    THEN [transitionType |-> "beatmatch", duration |-> 16000]
    ELSE IF keyDistance <= 1
    THEN [transitionType |-> "harmonic", duration |-> 12000]
    ELSE IF energyDiff > 30
    THEN [transitionType |-> IF energyDiff > 0 THEN "energy_build" ELSE "energy_drop",
          duration |-> 10000]
    ELSE [transitionType |-> "crossfade", duration |-> 8000]

\* Math.max(0.8, Math.min(1.2, tempoRatio)), in 1/1000: Math.min and
\* Math.max return NaN when an argument is NaN; Infinity clamps to 1.2.
ClampTempo(tempoRatio) ==
    IF tempoRatio.den = 0
    THEN IF tempoRatio.num = 0 THEN NaN ELSE 1200
    ELSE Max(800, Min(1200, (tempoRatio.num * 1000) \div tempoRatio.den))

\* 1 - (keyDistance / 6), in sixths
KeyCompatibility(keyDistance) == 6 - keyDistance

\* Mutant of Transition: the energy type chosen by the sign of the energy
\* difference.
TransitionBySign(fromTrack, toTrack) ==
    LET tempoRatio == TempoRatio(fromTrack, toTrack)
        keyDistance == CalculateKeyDistance(fromTrack.audioFeatures.key,
                                            toTrack.audioFeatures.key)
        energyDiff == Abs(toTrack.audioFeatures.energy - fromTrack.audioFeatures.energy)
        class == Classify(tempoRatio, keyDistance, energyDiff)
    IN  [fromTrack |-> fromTrack,
         toTrack |-> toTrack,
         transitionType |->
             IF class.transitionType = "energy_build"
                /\ toTrack.audioFeatures.energy < fromTrack.audioFeatures.energy
             THEN "energy_drop" ELSE class.transitionType,
         duration |-> class.duration,
         fadeOutStart |-> 30000 - class.duration,
         fadeInStart |-> 0,
         tempoAdjustment |-> ClampTempo(tempoRatio),
         keyCompatibility |-> KeyCompatibility(keyDistance)]

\* The DJTransition calculateTransition(fromTrack, toTrack) returns.
Transition(fromTrack, toTrack) ==
    LET tempoRatio == TempoRatio(fromTrack, toTrack)
        keyDistance == CalculateKeyDistance(fromTrack.audioFeatures.key,
                                            toTrack.audioFeatures.key)
        energyDiff == Abs(toTrack.audioFeatures.energy - fromTrack.audioFeatures.energy)
        class == Classify(tempoRatio, keyDistance, energyDiff)
    IN  [fromTrack |-> fromTrack,
         toTrack |-> toTrack,
         transitionType |-> class.transitionType,
         duration |-> class.duration,
         fadeOutStart |-> 30000 - class.duration,
         fadeInStart |-> 0,
         tempoAdjustment |-> ClampTempo(tempoRatio),
         keyCompatibility |-> KeyCompatibility(keyDistance)]

\* calculateTransition(fromTrack, toTrack); fn_first keeps what the first
\* call of the behaviour returned.
CalculateTransition(fromTrack, toTrack) ==
    /\ fn_calls < MaxCalls
    /\ fn_result' = Transition(fromTrack, toTrack)
    /\ fn_first' = IF fn_calls = 0 THEN Transition(fromTrack, toTrack) ELSE fn_first
    /\ fn_calls' = fn_calls + 1
    /\ lastOp' = [op |-> "calculateTransition", ret |-> TRUE]
    /\ UNCHANGED <<enVars, en_tracks, fn_args>>

\* Track descriptors handed to calculateTransition (the fields it reads):
\* tempo in BPM (0: no tempo), key (12: no pitch class), energy in 1/100.
TransitionTracks ==
    { [audioFeatures |-> [tempo |-> t, key |-> k, energy |-> e]] :
        t \in {0, 100, 120, 121}, k \in {0, 7, 2, 6, 12}, e \in {20, 60} }

\* ---- calculateKeyDistance ----
\* Key values calculateKeyDistance is called with: the pitch classes 0..11
\* and values that are none (-1 is the audio analysis's "no key detected").
KeyValues == -2 .. 13

\* this.calculateKeyDistance(key1, key2)
KeyDistance(key1, key2) ==
    /\ fn_result' = CalculateKeyDistance(key1, key2)
    /\ lastOp' = [op |-> "calculateKeyDistance", ret |-> TRUE]
    /\ UNCHANGED <<enVars, en_tracks, fn_args, fn_first, fn_calls>>

\* A track of the given key.
TrackOfKey(key) == [audioFeatures |-> [tempo |-> 120, key |-> key, energy |-> 50]]

\* ---- calculateMoodScores ----
\* Audio features handed to calculateMoodScores (the fields it reads): the
\* [0,1] descriptors at their ends and their middle, in 1/100, and tempos in
\* BPM from none to far above any music's.
MoodFeatures ==
    [energy : {0, 50, 100}, valence : {0, 50, 100}, danceability : {0, 50, 100},
     acousticness : {0, 50, 100}, instrumentalness : {0, 50, 100},
     speechiness : {0, 50, 100}, tempo : {0, 120, 200, 600, 800}]

\* this.calculateMoodScores(features)
MoodScores(features) ==
    /\ fn_result' = CalculateMoodScores(features)
    /\ lastOp' = [op |-> "calculateMoodScores", ret |-> TRUE]
    /\ UNCHANGED <<enVars, en_tracks, fn_args, fn_first, fn_calls>>

\* ---- analyzeTracks on tracks without audio features ----
NoFeatures == [undefined |-> TRUE]   \* track.audio_features is undefined

\* Math.random() in generateMockAudioFeatures, in 1/1000: the ends of [0, 1)
\* and the two values around the rounding point of Math.round.
MockRandoms == {0, 499, 500, 999}

\* Mutant of GenerateMockAudioFeatures: the key rounded, not floored.
GenerateMockAudioFeaturesRoundedKey(r) ==
    [danceability |-> r \div 10,
     energy |-> r \div 10,
     key |-> (r * 12 + 500) \div 1000,
     loudness |-> -60 + (r * 60) \div 1000,
     mode |-> IF r >= 500 THEN 1 ELSE 0,
     speechiness |-> (r * 3) \div 100,
     acousticness |-> r \div 10,
     instrumentalness |-> r \div 10,
     liveness |-> (r * 3) \div 100,
     valence |-> r \div 10,
     tempo |-> 80 + (r * 80) \div 1000,
     time_signature |-> 4]

\* generateMockAudioFeatures() when every Math.random() call returns r/1000:
\* the [0,1] descriptors in 1/100, loudness in dB and tempo in BPM (both
\* rounded down).
GenerateMockAudioFeatures(r) ==
    [danceability |-> r \div 10,
     energy |-> r \div 10,
     key |-> (r * 12) \div 1000,
     loudness |-> -60 + (r * 60) \div 1000,
     mode |-> IF r >= 500 THEN 1 ELSE 0,
     speechiness |-> (r * 3) \div 100,
     acousticness |-> r \div 10,
     instrumentalness |-> r \div 10,
     liveness |-> (r * 3) \div 100,
     valence |-> r \div 10,
     tempo |-> 80 + (r * 80) \div 1000,
     time_signature |-> 4]

\* Track data handed to analyzeTracks: each track has an id and either
\* audio_features (those of FeatureTable that go with the id) or none.
RawTracks ==
    { [id |-> i, audio_features |-> f] :
        i \in 1..NumIds, f \in {NoFeatures} \cup {AudioFeatures(j) : j \in 1..NumIds} }
RawTrackLists == UNION { [1..n -> RawTracks] : n \in 0..2 }

\* trackData.map(track => ...) of analyzeTracks; draws[i] is the random
\* value behind the mock features of track i.
Analyzed(trackData, draws) ==
    [i \in 1..Len(trackData) |->
       LET audioFeatures == IF trackData[i].audio_features # NoFeatures
                            THEN trackData[i].audio_features
                            ELSE GenerateMockAudioFeatures(draws[i])
       IN  [id |-> trackData[i].id,
            audioFeatures |-> audioFeatures,
            moodScore |-> CalculateMoodScores(audioFeatures),
            mixingCompatibility |-> CalculateMixingCompatibility(audioFeatures)]]

\* analyzeTracks(trackData) on raw track data
AnalyzeTrackData(trackData, draws) ==
    /\ en_tracks' = Analyzed(trackData, draws)
    /\ fn_args' = trackData
    /\ fn_result' = Analyzed(trackData, draws)
    /\ lastOp' = [op |-> "analyzeTracks", ret |-> TRUE]
    /\ UNCHANGED <<enVars, fn_first, fn_calls>>

\* ---- getNextTrack ----
MaxRemaining == 4     \* longest remainingTracks list handed to getNextTrack

\* Math.random() in getNextTrack, in 1/100: one value in each weight band
\* and one above 0.8, past the bands of two candidates
NextRandoms == {0, 50, 80, 99}

\* getNextTrack(currentTrack, remainingTracks) under this.currentMood
GetNext(currentTrack, remainingTracks, random) ==
    /\ fn_result' = GetNextTrack(currentTrack, remainingTracks, random, en_currentMood)
    /\ lastOp' = [op |-> "getNextTrack", ret |-> random]
    /\ UNCHANGED <<enVars, en_tracks, fn_args, fn_first, fn_calls>>

(***************************************************************************)
(*                             AILoFiPlayer                                *)
(***************************************************************************)

MaxAIPlaylist == 3    \* longest playlist the analysis endpoint returns
MaxAITimers == 4      \* setInterval calls made in one behaviour
MaxPending == 2       \* monitoring callbacks suspended at one await

AINull == 0           \* null
AIUndefined == -1     \* undefined: playlist[i] beyond the end

\* aiResult.playlist: the tracks 1..n in the order the backend chose
AIPlaylists == { [i \in 1..n |-> i] : n \in 0..MaxAIPlaylist }

\* playlist[index] with a 0-based index
AIPlaylistAt(playlist, index) ==
    IF index + 1 \in 1..Len(playlist) THEN playlist[index + 1] ELSE AIUndefined

\* !track
AIFalsy(track) == track = AINull \/ track = AIUndefined

\* crossfadeProgress in tenths
AIInit ==
    /\ ai_spotifyPlayer = FALSE
    /\ ai_deviceId = FALSE
    /\ ai_state = [isPlaying |-> FALSE, currentTrack |-> AINull, nextTrack |-> AINull,
                   playlist |-> <<>>, currentIndex |-> 0, crossfadeProgress |-> 0]
    /\ ai_transitionTimer = 0
    /\ ai_positionTimer = 0
    /\ ai_timers = {}
    /\ ai_nextTimerId = 1
    /\ ai_playbackPending = 0
    /\ ai_awaitingState = 0
    /\ ai_awaitingDecision = 0

\* initialize(accessToken): without window.Spotify it throws before the
\* player is created; otherwise the player exists and the listeners are set.
AIInitialize(sdkLoaded) ==
    /\ ~ai_spotifyPlayer
    /\ ai_spotifyPlayer' = sdkLoaded
    /\ lastOp' = [op |-> "ai.initialize", ret |-> sdkLoaded]
    /\ UNCHANGED <<ai_deviceId, ai_state, ai_transitionTimer, ai_positionTimer,
                   ai_timers, ai_nextTimerId, ai_playbackPending, ai_awaitingState,
                   ai_awaitingDecision>>

\* the 'ready' listener
AIReady ==
    /\ ai_spotifyPlayer
    /\ ai_deviceId' = TRUE
    /\ lastOp' = [op |-> "ai.ready", ret |-> TRUE]
    /\ UNCHANGED <<ai_spotifyPlayer, ai_state, ai_transitionTimer, ai_positionTimer,
                   ai_timers, ai_nextTimerId, ai_playbackPending, ai_awaitingState,
                   ai_awaitingDecision>>

\* the 'player_state_changed' listener: state is null (present = FALSE) or
\* carries paused and track_window.current_track; with a current track it
\* ends in startAIMonitoring(), which registers one more interval and
\* keeps only the new handle.
PlayerStateChanged(present, paused, hasTrack) ==
    /\ ai_spotifyPlayer
    /\ IF ~present
       THEN /\ lastOp' = [op |-> "player_state_changed", ret |-> FALSE]
            /\ UNCHANGED aiVars
       ELSE /\ ai_state' = [ai_state EXCEPT !.isPlaying = ~paused]
            /\ IF hasTrack
               THEN /\ ai_nextTimerId <= MaxAITimers
                    /\ ai_timers' = ai_timers \cup {[id |-> ai_nextTimerId, kind |-> "monitor"]}
                    /\ ai_positionTimer' = ai_nextTimerId
                    /\ ai_nextTimerId' = ai_nextTimerId + 1
               ELSE UNCHANGED <<ai_timers, ai_positionTimer, ai_nextTimerId>>
            /\ lastOp' = [op |-> "player_state_changed", ret |-> TRUE]
            /\ UNCHANGED <<ai_spotifyPlayer, ai_deviceId, ai_transitionTimer,
                           ai_playbackPending, ai_awaitingState, ai_awaitingDecision>>

\* startAIMix(tracks, mood) from the arrival of the analysis response to the
\* first await of startPlayback(): ok is response.ok, playlist is
\* aiResult.playlist.  startPlayback returns at once without a device or
\* with an empty playlist.
StartAIMix(ok, playlist) ==
    IF ~ok
    THEN /\ lastOp' = [op |-> "startAIMix", ret |-> FALSE]
         /\ UNCHANGED aiVars
    ELSE /\ ai_playbackPending < 1
         /\ ai_state' = [ai_state EXCEPT
                            !.playlist = playlist,
                            !.currentIndex = 0,
                            !.currentTrack = AIPlaylistAt(playlist, 0),
                            !.nextTrack = AIPlaylistAt(playlist, 1)]
         /\ ai_playbackPending' =
              IF ~ai_deviceId \/ Len(playlist) = 0 THEN ai_playbackPending
              ELSE ai_playbackPending + 1
         /\ lastOp' = [op |-> "startAIMix", ret |-> TRUE]
         /\ UNCHANGED <<ai_spotifyPlayer, ai_deviceId, ai_transitionTimer,
                        ai_positionTimer, ai_timers, ai_nextTimerId, ai_awaitingState,
                        ai_awaitingDecision>>

\* startPlayback() after its two fetches: a rejected fetch (ok = FALSE) is
\* rethrown; otherwise isPlaying = true and startAIMonitoring().
StartPlayback(ok) ==
    /\ ai_playbackPending > 0
    /\ ai_playbackPending' = ai_playbackPending - 1
    /\ IF ok
       THEN /\ ai_nextTimerId <= MaxAITimers
            /\ ai_state' = [ai_state EXCEPT !.isPlaying = TRUE]
            /\ ai_timers' = ai_timers \cup {[id |-> ai_nextTimerId, kind |-> "monitor"]}
            /\ ai_positionTimer' = ai_nextTimerId
            /\ ai_nextTimerId' = ai_nextTimerId + 1
       ELSE UNCHANGED <<ai_state, ai_timers, ai_positionTimer, ai_nextTimerId>>
    /\ lastOp' = [op |-> "startPlayback", ret |-> ok]
    /\ UNCHANGED <<ai_spotifyPlayer, ai_deviceId, ai_transitionTimer, ai_awaitingState,
                   ai_awaitingDecision>>

\* One firing of an interval startAIMonitoring registered, up to its first
\* await.
MonitorTick(t) ==
    /\ t.kind = "monitor"
    /\ IF ~ai_state.isPlaying \/ AIFalsy(ai_state.currentTrack)
          \/ AIFalsy(ai_state.nextTrack)
       THEN /\ lastOp' = [op |-> "ai.monitor", ret |-> FALSE]
            /\ UNCHANGED aiVars
       ELSE /\ ai_awaitingState < MaxPending
            /\ ai_awaitingState' = ai_awaitingState + 1
            /\ lastOp' = [op |-> "ai.monitor", ret |-> TRUE]
            /\ UNCHANGED <<ai_spotifyPlayer, ai_deviceId, ai_state, ai_transitionTimer,
                           ai_positionTimer, ai_timers, ai_nextTimerId,
                           ai_playbackPending, ai_awaitingDecision>>

\* getCurrentState() resolves for one suspended callback: with null it
\* returns, otherwise it asks for the AI decision and is suspended again.
CurrentStateArrives(present) ==
    /\ ai_awaitingState > 0
    /\ present => ai_awaitingDecision < MaxPending
    /\ ai_awaitingState' = ai_awaitingState - 1
    /\ ai_awaitingDecision' = ai_awaitingDecision + (IF present THEN 1 ELSE 0)
    /\ lastOp' = [op |-> "ai.state", ret |-> present]
    /\ UNCHANGED <<ai_spotifyPlayer, ai_deviceId, ai_state, ai_transitionTimer,
                   ai_positionTimer, ai_timers, ai_nextTimerId, ai_playbackPending>>

\* getAITransitionDecision resolves for one suspended callback (the
\* fallback of a failed fetch has shouldTransition = false); with
\* shouldTransition and no transitionTimer it runs startCrossfade, which
\* registers the crossfade interval.
DecisionArrives(shouldTransition) ==
    /\ ai_awaitingDecision > 0
    /\ ai_awaitingDecision' = ai_awaitingDecision - 1
    /\ IF shouldTransition /\ ai_transitionTimer = 0
       THEN /\ ai_nextTimerId <= MaxAITimers
            /\ ai_timers' = ai_timers \cup {[id |-> ai_nextTimerId, kind |-> "crossfade"]}
            /\ ai_transitionTimer' = ai_nextTimerId
            /\ ai_nextTimerId' = ai_nextTimerId + 1
            /\ lastOp' = [op |-> "ai.decision", ret |-> TRUE]
       ELSE /\ lastOp' = [op |-> "ai.decision", ret |-> FALSE]
            /\ UNCHANGED <<ai_timers, ai_transitionTimer, ai_nextTimerId>>
    /\ UNCHANGED <<ai_spotifyPlayer, ai_deviceId, ai_state, ai_positionTimer,
                   ai_playbackPending, ai_awaitingState>>

\* the state completeCrossfade() leaves
CompleteCrossfade ==
    [ai_state EXCEPT
        !.currentIndex = ai_state.currentIndex + 1,
        !.currentTrack = AIPlaylistAt(ai_state.playlist, ai_state.currentIndex + 1),
        !.nextTrack =
            IF AIFalsy(AIPlaylistAt(ai_state.playlist, ai_state.currentIndex + 2))
            THEN AINull
            ELSE AIPlaylistAt(ai_state.playlist, ai_state.currentIndex + 2),
        !.crossfadeProgress = 0]

\* One firing of the interval startCrossfade registered; progress is
\* Math.min(elapsed / duration, 1) in tenths.  At progress 1 it runs
\* completeCrossfade(), which clears the interval transitionTimer holds.
CrossfadeTick(t, progress) ==
    /\ t.kind = "crossfade"
    /\ IF progress >= 10
       THEN /\ ai_state' = CompleteCrossfade
            /\ ai_timers' = { u \in ai_timers : u.id # ai_transitionTimer }
            /\ ai_transitionTimer' = 0
       ELSE /\ ai_state' = [ai_state EXCEPT !.crossfadeProgress = progress]
            /\ UNCHANGED <<ai_timers, ai_transitionTimer>>
    /\ lastOp' = [op |-> "ai.crossfade", ret |-> progress >= 10]
    /\ UNCHANGED <<ai_spotifyPlayer, ai_deviceId, ai_positionTimer, ai_nextTimerId,
                   ai_playbackPending, ai_awaitingState, ai_awaitingDecision>>

\* disconnect(): clears the two intervals whose handles are held and keeps
\* the handles.
AIDisconnect ==
    /\ ai_timers' = { u \in ai_timers :
                        u.id # ai_transitionTimer /\ u.id # ai_positionTimer }
    /\ lastOp' = [op |-> "ai.disconnect", ret |-> TRUE]
    /\ UNCHANGED <<ai_spotifyPlayer, ai_deviceId, ai_state, ai_transitionTimer,
                   ai_positionTimer, ai_nextTimerId, ai_playbackPending,
                   ai_awaitingState, ai_awaitingDecision>>

(***************************************************************************)
(*                  AIDJEngine of the backend (ai-dj-engine.js)            *)
(***************************************************************************)

MaxSort == 4          \* longest of the short lists handed to aiSortTracks

\* The analysis fields aiSortTracks reads, of four tracks: tempo in BPM,
\* harmonicKey.camelot as number and letter, energyFlow.overallEnergy in
\* 1/100, mood.  Track id carries the analysis of BackendAnalyses[id], ids
\* beyond 4 repeat them.
BackendAnalyses ==
    << [tempo |-> 100, camelot |-> [num |-> 8, letter |-> "A"], overallEnergy |-> 30,
        mood |-> "chill"],
       [tempo |-> 150, camelot |-> [num |-> 9, letter |-> "A"], overallEnergy |-> 50,
        mood |-> "chill"],
       [tempo |-> 103, camelot |-> [num |-> 8, letter |-> "B"], overallEnergy |-> 70,
        mood |-> "party"],
       [tempo |-> 206, camelot |-> [num |-> 3, letter |-> "A"], overallEnergy |-> 90,
        mood |-> "party"] >>
BackendAnalysis(id) == BackendAnalyses[((id - 1) % 4) + 1]

\* energyCurves[mood], in 1/100
EnergyCurve(mood) ==
    CASE mood = "chill" -> <<20, 30, 40, 50, 40, 30, 20>>
      [] mood = "study" -> <<30, 40, 50, 50, 40, 30, 20>>
      [] mood = "cafe"  -> <<40, 50, 60, 50, 40, 30, 20>>
      [] OTHER          -> <<50, 60, 70, 80, 90, 70, 50>>

\* calculateTempoCompatibility(tempoA, tempoB); the ratios 2, 1.5, 0.75 and
\* 0.5 are taken in quarters
CalculateTempoCompatibility(tempoA, tempoB) ==
    LET diff == Abs(tempoA - tempoB)
    IN  IF diff <= 3 THEN 100
        ELSE IF diff <= 6 THEN 90
        ELSE IF diff <= 10 THEN 70
        ELSE IF \E r \in {8, 6, 3, 2} : Abs(4 * tempoA - tempoB * r) <= 12
        THEN 85
        ELSE Max(0, 50 - diff * 2)

\* calculateKeyCompatibility(keyA, keyB) on two Camelot codes
CalculateKeyCompatibility(keyA, keyB) ==
    IF keyA.camelot = keyB.camelot THEN 100
    ELSE IF keyA.camelot.letter = keyB.camelot.letter
            /\ Abs(keyA.camelot.num - keyB.camelot.num) = 1 THEN 95
    ELSE IF keyA.camelot.num = keyB.camelot.num
            /\ keyA.camelot.letter # keyB.camelot.letter THEN 90
    ELSE IF Abs(keyA.camelot.num - keyB.camelot.num) = 7 THEN 85
    ELSE 60

\* calculateTransitionScore(trackA, trackB, targetEnergy) of the backend, in
\* 1/100 (the weights 0.3, 0.25, 0.3, 0.15 as 30, 25, 30, 15)
BackendTransitionScore(trackA, trackB, targetEnergy) ==
    LET a == BackendAnalysis(trackA)
        b == BackendAnalysis(trackB)
    IN  CalculateTempoCompatibility(a.tempo, b.tempo) * 30
        + CalculateKeyCompatibility(a, b) * 25
        + (100 - Abs(b.overallEnergy - targetEnergy)) * 30
        + (IF a.mood = b.mood THEN 100 ELSE 70) * 15

\* findBestNextTrack(currentTrack, candidates, targetEnergy); NoRef is null.
\* candidates.reduce((best, candidate) => currentScore > bestScore ? candidate
\* : best) keeps the first candidate of the highest score.
FindBestNextTrack(currentTrack, candidates, targetEnergy) ==
    IF Len(candidates) = 0 THEN NoRef
    ELSE LET score == [k \in 1..Len(candidates) |->
                         BackendTransitionScore(currentTrack, candidates[k], targetEnergy)]
         IN  candidates[CHOOSE k \in 1..Len(candidates) :
                           /\ \A j \in 1..Len(candidates) : score[j] <= score[k]
                           /\ \A j \in 1..(k - 1) : score[j] < score[k]]

\* remaining.reduce((best, track) => ...) choosing the opening track: the
\* first track whose energy is nearest to target
OpeningTrack(remaining, target) ==
    LET dist == [k \in 1..Len(remaining) |->
                    Abs(BackendAnalysis(remaining[k]).overallEnergy - target)]
    IN  remaining[CHOOSE k \in 1..Len(remaining) :
                     /\ \A j \in 1..Len(remaining) : dist[k] <= dist[j]
                     /\ \A j \in 1..(k - 1) : dist[k] < dist[j]]

\* for (let i = 1; i < Math.min(remaining.length + 1, 20); i++) from i on:
\* the condition reads remaining.length before every iteration.
RECURSIVE SortLoop(_, _, _, _, _)
SortLoop(i, currentTrack, remaining, result, targetCurve) ==
    IF i >= Min(Len(remaining) + 1, 20) THEN result
    ELSE LET target == targetCurve[((i * (Len(targetCurve) - 1)) \div 19) + 1]
             next == FindBestNextTrack(currentTrack, remaining, target)
         IN  IF next # NoRef
             THEN SortLoop(i + 1, next, RemoveTrack(remaining, next),
                           Append(result, next), targetCurve)
             ELSE SortLoop(i + 1, currentTrack, remaining, result, targetCurve)

\* aiSortTracks(tracks, mood); a track is its id
AiSortTracks(tracks, mood) ==
    IF Len(tracks) = 0 THEN <<>>
    ELSE LET curve == EnergyCurve(mood)
             first == OpeningTrack(tracks, curve[1])
             rest == RemoveTrack(tracks, first)
         IN  SortLoop(1, first, rest, <<first>>, curve)

\* aiSortTracks on the arguments held in fn_args
AiSort ==
    /\ fn_result' = AiSortTracks(fn_args.tracks, fn_args.mood)
    /\ lastOp' = [op |-> "aiSortTracks", ret |-> TRUE]
    /\ UNCHANGED <<enVars, en_tracks, fn_args, fn_first, fn_calls>>

\* Lists of distinct tracks handed to aiSortTracks: every list of up to
\* MaxSort of the tracks 1..MaxSort, and the lists 1..20, 1..21 and 1..40.
SortInputs ==
    UNION { { f \in [1..n -> 1..MaxSort] : \A i, j \in 1..n : f[i] = f[j] => i = j } :
            n \in 0..MaxSort }
    \cup { [i \in 1..n |-> i] : n \in {20, 21, 40} }

\* Tempos handed to calculateTempoCompatibility, in BPM
Tempos == 60 .. 210

\* calculateTempoCompatibility on the arguments held in fn_args
TempoCompatibility ==
    /\ fn_result' = CalculateTempoCompatibility(fn_args.tempoA, fn_args.tempoB)
    /\ lastOp' = [op |-> "calculateTempoCompatibility", ret |-> TRUE]
    /\ UNCHANGED <<enVars, en_tracks, fn_args, fn_first, fn_calls>>

(***************************************************************************)
(*                          CompleteAIDJPlayer                             *)
(***************************************************************************)
\* The player's calls into intelligentDJTransitions and
\* realTimeAudioTransformer write those objects' own state.  The player
\* reads back two things, which are inputs here: whether executeTransition
\* accepted, and the dj-transition-complete event of an accepted transition.
\* Every await of a handler is taken to settle before another handler runs;
\* how it settles (preview found or not, play() resolved or rejected) is an
\* input of the handler.

MaxMix == 3           \* longest track list handed to startAIDJMix

AudioElements == 1..3   \* audioElements[0], [1], [2] of createAudioElementPool
NoAnalysis == [id |-> 0]   \* currentTrack / nextTrack === null

\* Math.random() behind the audio features of one track, in 1/1000
PlayerRandoms == {0, 999}
PlayerMoods == {"chill", "party"}

\* The track lists handed to startAIDJMix: tracks 1..n as the catalogue
\* delivers them, without audio_features.
MixTracks(n) == [i \in 1..n |-> [id |-> i, audio_features |-> NoFeatures]]

\* The draws behind the features of n tracks: every track of one call gets
\* the same draw.
PlayerDraws(n) == { [i \in 1..n |-> r] : r \in PlayerRandoms }

\* analyzeTracks on the enriched tracks of startAIDJMix and on the original
\* tracks of changeMood, for every list length and draw.
EnrichedAnalyses ==
    [n \in 0..MaxMix |-> [draws \in PlayerDraws(n) |->
        Analyzed([i \in 1..n |->
                    [id |-> i, audio_features |-> GenerateMockAudioFeatures(draws[i])]],
                 draws)]]
OriginalAnalyses ==
    [n \in 0..MaxMix |-> [draws \in PlayerDraws(n) |-> Analyzed(MixTracks(n), draws)]]

\* The order createMoodPlaylist and optimizeTrackOrder put the n analysed
\* tracks in goes by their scores and by random draws.  Two orders are
\* followed: the analysed order and its reverse.
Orders(n) == { [i \in 1..n |-> i], [i \in 1..n |-> n + 1 - i] }

PLInit ==
    /\ pl_isInitialized = FALSE
    /\ pl_currentAudio = NoElem
    /\ pl_nextAudio = NoElem
    /\ pl_djState = [isPlaying |-> FALSE, currentTrack |-> NoAnalysis,
                     nextTrack |-> NoAnalysis, mood |-> "chill", playlist |-> <<>>,
                     playlistIndex |-> 0, isTransitioning |-> FALSE]
    /\ pl_originalTracks = <<>>
    /\ pl_src = [e \in AudioElements |-> 0]
    /\ pl_pendingTransition = FALSE
    /\ pl_analysisLoops = 0

\* The fields the handlers below write, as one record.
PlayerState ==
    [currentAudio |-> pl_currentAudio, nextAudio |-> pl_nextAudio,
     djState |-> pl_djState, src |-> pl_src]

\* djState.playlist[k] for a 0-based k
PlaylistAt(st, k) == st.djState.playlist[k + 1]

\* prepareNextTrack(); previews is the set of track ids getTrackPreviewUrl
\* finds a preview for.
PlayerPrepareNextTrack(st, previews) ==
    LET nextIndex == st.djState.playlistIndex + 1
    IN  IF nextIndex >= Len(st.djState.playlist) THEN st
        ELSE [st EXCEPT
                !.djState.nextTrack = PlaylistAt(st, nextIndex),
                !.nextAudio = 2,
                !.src = IF PlaylistAt(st, nextIndex).id \in previews
                        THEN [@ EXCEPT ![2] = PlaylistAt(st, nextIndex).id]
                        ELSE @]

\* onTransitionComplete(track)
OnTransitionComplete(st, previews) ==
    PlayerPrepareNextTrack(
        [st EXCEPT
           !.djState.playlistIndex = @ + 1,
           !.djState.currentTrack = st.djState.nextTrack,
           !.djState.nextTrack = NoAnalysis,
           !.djState.isTransitioning = FALSE,
           !.currentAudio = st.nextAudio,
           !.nextAudio = st.currentAudio],
        previews)

\* playNextTrack(); nextAudio.play() rejects for an element without src and
\* otherwise settles as playOk says.
PlayNextTrack(st, previews, playOk) ==
    IF st.djState.playlistIndex + 1 >= Len(st.djState.playlist)
    THEN [st EXCEPT !.djState.isPlaying = FALSE]
    ELSE LET moved == [st EXCEPT !.djState.playlistIndex = @ + 1]
         IN  IF moved.nextAudio # NoElem /\ moved.src[moved.nextAudio] # 0 /\ playOk
             THEN OnTransitionComplete(moved, previews)
             ELSE moved

\* startFirstTrack(): [st, started].  Without a preview the method counts
\* playlistIndex up and calls itself, which takes playlist[0] again, until
\* the index leaves the playlist and it throws.
StartFirstTrack(st, previews, playOk) ==
    LET firstTrack == PlaylistAt(st, 0)
        taken == [st EXCEPT !.djState.currentTrack = firstTrack, !.currentAudio = 1]
    IN  IF firstTrack.id \in previews
        THEN LET loaded == [taken EXCEPT !.src[1] = firstTrack.id]
             IN  IF playOk
                 THEN [st |-> PlayerPrepareNextTrack(loaded, previews), started |-> TRUE]
                 ELSE [st |-> loaded, started |-> FALSE]
        ELSE [st |-> [taken EXCEPT !.djState.playlistIndex = Len(st.djState.playlist)],
              started |-> FALSE]

\* The handlers' writes to the player's fields.
PlayerWrite(st) ==
    /\ pl_currentAudio' = st.currentAudio
    /\ pl_nextAudio' = st.nextAudio
    /\ pl_djState' = st.djState
    /\ pl_src' = st.src

\* initialize()
PLInitialize ==
    /\ ~pl_isInitialized
    /\ pl_isInitialized' = TRUE
    /\ lastOp' = [op |-> "pl.initialize", ret |-> TRUE]
    /\ UNCHANGED <<pl_currentAudio, pl_nextAudio, pl_djState, pl_originalTracks,
                   pl_src, pl_pendingTransition, pl_analysisLoops, enVars, fnVars>>

\* startAIDJMix(tracks, mood): draws[i] is behind the audio features
\* enrichTracksWithAudioFeatures gives track i, order the order the engine
\* puts the analysed tracks in.
StartAIDJMix(tracks, mood, draws, order, previews, playOk) ==
    IF ~pl_isInitialized
    THEN /\ lastOp' = [op |-> "startAIDJMix", ret |-> FALSE]
         /\ UNCHANGED <<plVars, enVars, fnVars>>
    ELSE LET analyzed == EnrichedAnalyses[Len(tracks)][draws]
             planned == [PlayerState EXCEPT
                           !.djState.mood = mood,
                           !.djState.playlist = [i \in 1..Len(tracks) |-> analyzed[order[i]]],
                           !.djState.playlistIndex = 0]
             first == IF Len(tracks) = 0 THEN [st |-> planned, started |-> FALSE]
                      ELSE StartFirstTrack(planned, previews, playOk)
         IN  /\ pl_originalTracks' = tracks
             /\ en_currentMood' = mood
             /\ en_tracks' = analyzed
             /\ PlayerWrite(IF first.started
                            THEN [first.st EXCEPT !.djState.isPlaying = TRUE]
                            ELSE first.st)
             \* startRealTimeAnalysis(): analyze() runs once and arms its timeout
             /\ pl_analysisLoops' = pl_analysisLoops + (IF first.started THEN 1 ELSE 0)
             /\ lastOp' = [op |-> "startAIDJMix", ret |-> first.started]
             /\ UNCHANGED <<pl_isInitialized, pl_pendingTransition, en_input, en_pc,
                            en_optimized, en_remaining, en_result, en_calls,
                            fn_args, fn_result, fn_first, fn_calls>>

\* 'timeupdate' on the current element inside the transition window:
\* checkTransitionTiming() and executeIntelligentTransition().  accepted is
\* what executeTransition returns; it rejects while a transition runs.
TimeUpdate(accepted, previews, playOk) ==
    /\ pl_currentAudio # NoElem
    /\ (accepted => ~pl_pendingTransition)
    /\ IF pl_djState.currentTrack = NoAnalysis \/ pl_djState.nextTrack = NoAnalysis
          \/ pl_djState.isTransitioning
       THEN UNCHANGED plVars
       ELSE LET begun == [PlayerState EXCEPT !.djState.isTransitioning = TRUE]
            IN  /\ PlayerWrite(IF accepted THEN begun
                               ELSE PlayNextTrack(begun, previews, playOk))
                /\ pl_pendingTransition' = (pl_pendingTransition \/ accepted)
                /\ UNCHANGED <<pl_isInitialized, pl_originalTracks, pl_analysisLoops>>
    /\ lastOp' = [op |-> "timeupdate", ret |-> accepted]
    /\ UNCHANGED <<enVars, fnVars>>

\* The dj-transition-complete event of the accepted transition.
TransitionCompleteEvent(previews) ==
    /\ pl_pendingTransition
    /\ pl_pendingTransition' = FALSE
    /\ PlayerWrite(OnTransitionComplete(PlayerState, previews))
    /\ lastOp' = [op |-> "dj-transition-complete", ret |-> TRUE]
    /\ UNCHANGED <<pl_isInitialized, pl_originalTracks, pl_analysisLoops, enVars, fnVars>>

\* 'ended' on an element that has a src
Ended(audio, previews, playOk) ==
    /\ pl_src[audio] # 0
    /\ PlayerWrite(IF audio = pl_currentAudio
                   THEN PlayNextTrack(PlayerState, previews, playOk)
                   ELSE PlayerState)
    /\ lastOp' = [op |-> "ended", ret |-> audio = pl_currentAudio]
    /\ UNCHANGED <<pl_isInitialized, pl_originalTracks, pl_pendingTransition,
                   pl_analysisLoops,
                   enVars, fnVars>>

\* 'error' on an element that has a src: handleAudioError()
AudioError(audio, previews, playOk) ==
    /\ pl_src[audio] # 0
    /\ PlayerWrite(PlayNextTrack(PlayerState, previews, playOk))
    /\ lastOp' = [op |-> "error", ret |-> TRUE]
    /\ UNCHANGED <<pl_isInitialized, pl_originalTracks, pl_pendingTransition,
                   pl_analysisLoops,
                   enVars, fnVars>>

\* skip()
Skip(previews, playOk) ==
    /\ PlayerWrite(PlayNextTrack(PlayerState, previews, playOk))
    /\ lastOp' = [op |-> "skip", ret |-> TRUE]
    /\ UNCHANGED <<pl_isInitialized, pl_originalTracks, pl_pendingTransition,
                   pl_analysisLoops,
                   enVars, fnVars>>

\* pause()
Pause ==
    /\ IF pl_currentAudio # NoElem
       THEN pl_djState' = [pl_djState EXCEPT !.isPlaying = FALSE]
       ELSE UNCHANGED pl_djState
    /\ lastOp' = [op |-> "pause", ret |-> pl_currentAudio # NoElem]
    /\ UNCHANGED <<pl_isInitialized, pl_currentAudio, pl_nextAudio, pl_originalTracks,
                   pl_src, pl_pendingTransition, pl_analysisLoops, enVars, fnVars>>

\* resume()
Resume ==
    /\ IF pl_currentAudio # NoElem
       THEN pl_djState' = [pl_djState EXCEPT !.isPlaying = TRUE]
       ELSE UNCHANGED pl_djState
    /\ lastOp' = [op |-> "resume", ret |-> pl_currentAudio # NoElem]
    /\ UNCHANGED <<pl_isInitialized, pl_currentAudio, pl_nextAudio, pl_originalTracks,
                   pl_src, pl_pendingTransition, pl_analysisLoops, enVars, fnVars>>

\* One setTimeout(analyze, 100) callback of startRealTimeAnalysis: it
\* returns when the player is not playing, and otherwise takes a sample
\* (ret is TRUE) and arms the next timeout.
AnalyzeTick ==
    /\ pl_analysisLoops > 0
    /\ pl_analysisLoops' = IF pl_djState.isPlaying THEN pl_analysisLoops
                           ELSE pl_analysisLoops - 1
    /\ lastOp' = [op |-> "analyze", ret |-> pl_djState.isPlaying]
    /\ UNCHANGED <<pl_isInitialized, pl_currentAudio, pl_nextAudio, pl_djState,
                   pl_originalTracks, pl_src, pl_pendingTransition, enVars, fnVars>>

\* filter(track => track.id !== currentTrack?.id) of changeMood
RECURSIVE WithoutId(_, _)
WithoutId(seq, id) ==
    IF seq = <<>> THEN <<>>
    ELSE IF Head(seq).id = id THEN WithoutId(Tail(seq), id)
    ELSE <<Head(seq)>> \o WithoutId(Tail(seq), id)

\* changeMood(newMood): analyzeTracks runs on originalTracks, whose tracks
\* have no audio_features, so every track gets new mock features.
ChangeMood(newMood, draws, order, previews) ==
    /\ en_currentMood' = newMood
    /\ IF Len(pl_originalTracks) > 0
       THEN LET analyzed == OriginalAnalyses[Len(pl_originalTracks)][draws]
                optimizedPlaylist == [i \in 1..Len(analyzed) |-> analyzed[order[i]]]
                replaced == [PlayerState EXCEPT
                               !.djState.mood = newMood,
                               !.djState.playlist =
                                   <<pl_djState.currentTrack>>
                                   \o WithoutId(optimizedPlaylist, pl_djState.currentTrack.id),
                               !.djState.playlistIndex = 0]
            IN  /\ en_tracks' = analyzed
                /\ PlayerWrite(PlayerPrepareNextTrack(replaced, previews))
       ELSE /\ en_tracks' = en_tracks
            /\ PlayerWrite([PlayerState EXCEPT !.djState.mood = newMood])
    /\ lastOp' = [op |-> "changeMood", ret |-> TRUE]
    /\ UNCHANGED <<pl_isInitialized, pl_originalTracks, pl_pendingTransition,
                   pl_analysisLoops,
                   en_input, en_pc, en_optimized, en_remaining, en_result, en_calls,
                   fn_args, fn_result, fn_first, fn_calls>>

\* Which previews exist, as the handlers' input: all, or all but track 2's.
PreviewSets == {1..MaxMix, (1..MaxMix) \ {2}}

(***************************************************************************)
(*                            Specifications                               *)
(***************************************************************************)

ENIdle ==
    /\ en_currentMood = "chill"
    /\ en_input = <<>>
    /\ en_pc = "idle"
    /\ en_optimized = <<>>
    /\ en_remaining = <<>>
    /\ en_result = <<>>
    /\ en_calls = 0

\* A fresh engine (tracks = []) and no call made yet.
FNIdle ==
    /\ en_tracks = <<>>
    /\ fn_args = <<>>
    /\ fn_result = <<>>
    /\ fn_first = <<>>
    /\ fn_calls = 0

NoOp == [op |-> "none", ret |-> FALSE]

\* What an operation of one object leaves alone: the objects hold no
\* reference to one another, and each creates its own audio nodes.
OnlyDJ == UNCHANGED <<lpVars, rtVars, enVars, fnVars, plVars, aiVars>>

\* Mutant of OnlyLP: the processor's gainNode is the executor's currentGain
\* node, so every effects-gain write lands on the crossfade gain.
OnlyLPSharedGainNode ==
    /\ dj_currentGain' = lp_gain' * 10
    /\ UNCHANGED <<dj_audioContext, dj_currentAudio, dj_nextAudio, dj_nextGain,
                   dj_transitionState, dj_currentTransition, dj_playbackRate,
                   dj_sourced, dj_loops, dj_events, dj_accepted, rtVars, enVars,
                   fnVars, plVars, aiVars>>

OnlyLP == UNCHANGED <<djVars, rtVars, enVars, fnVars, plVars, aiVars>>
OnlyRT == UNCHANGED <<djVars, lpVars, enVars, fnVars, plVars, aiVars>>
OnlyEN == UNCHANGED <<djVars, lpVars, rtVars, fnVars, plVars, aiVars>>
OnlyAI == UNCHANGED <<djVars, lpVars, rtVars, enVars, fnVars, plVars>>

Init == DJInit /\ LPInit /\ RTInit /\ PLInit /\ AIInit /\ ENIdle /\ FNIdle /\ lastOp = NoOp

\* The transition executor alone.
Next ==
    \/ DJInitialize /\ OnlyDJ
    \/ (\E e \in Elems : PrepareNextTrack(e)) /\ OnlyDJ
    \/ (\E tr \in DJInputs : ExecuteTransition(tr)) /\ OnlyDJ
    \/ (\E dt \in FrameSteps : AnimationFrame(dt)) /\ OnlyDJ
    \/ (\E position \in CrossfadePositions : SetCrossfadePosition(position)) /\ OnlyDJ
    \/ StopTransition /\ OnlyDJ
Spec == Init /\ [][Next]_vars

\* The executor with frames that keep coming while time advances, and no
\* call of stopTransition.
LiveNext ==
    \/ DJInitialize /\ OnlyDJ
    \/ (\E e \in Elems : PrepareNextTrack(e)) /\ OnlyDJ
    \/ (\E tr \in DJInputs : ExecuteTransition(tr)) /\ OnlyDJ
    \/ (\E dt \in FrameSteps : AnimationFrame(dt)) /\ OnlyDJ
    \/ (\E position \in CrossfadePositions : SetCrossfadePosition(position)) /\ OnlyDJ
LiveSpec ==
    /\ Init
    /\ [][LiveNext]_vars
    /\ WF_vars(AnimationFrame(1) /\ OnlyDJ)

\* The LoFiProcessor alone, on every band vector of BandLevels.
LoFiNext ==
    \/ LPInitialize /\ OnlyLP
    \/ (\E preset \in Moods : ApplyLoFiPreset(preset)) /\ OnlyLP
    \/ (\E t \in lp_timers, d \in BandLevels : RealtimeTick(t, d)) /\ OnlyLP
    \/ (\E t \in lp_timers, d \in BandLevels : EffectsTick(t, d)) /\ OnlyLP
    \/ (\E t \in lp_timers, d \in BandLevels : MockTick(t, d)) /\ OnlyLP
    \/ EnableVisualMode /\ OnlyLP
    \/ StartAnalysis /\ OnlyLP
    \/ LPDispose /\ OnlyLP
LoFiSpec == Init /\ [][LoFiNext]_vars

\* The two effects processors side by side: mood switches, adjustParameter
\* and the adaptation of both, on the extreme band vectors.
FxBands == { d \in BandLevels : d.bass = d.mid /\ d.mid = d.treble /\ d.bass # 102 }
FxNext ==
    \/ LPInitialize /\ OnlyLP
    \/ (\E preset \in Moods : ApplyLoFiPreset(preset)) /\ OnlyLP
    \/ (\E t \in lp_timers, d \in FxBands : RealtimeTick(t, d)) /\ OnlyLP
    \/ (\E t \in lp_timers, d \in FxBands : EffectsTick(t, d)) /\ OnlyLP
    \/ EnableVisualMode /\ OnlyLP
    \/ StartAnalysis /\ OnlyLP
    \/ LPDispose /\ OnlyLP
    \/ RTInitialize /\ OnlyRT
    \/ (\E sg \in Signals : RTConnect(sg[1], sg[2])) /\ OnlyRT
    \/ (\E sg \in Signals : RTFrame(sg[1], sg[2])) /\ OnlyRT
    \/ (\E mood \in Moods : ApplyMoodPreset(mood)) /\ OnlyRT
    \/ (\E a \in Adjustments : AdjustParameter(a[1], a[2])) /\ OnlyRT
    \/ RTDispose /\ OnlyRT
FxSpec == Init /\ [][FxNext]_vars

\* The transition loop interleaved with both effects loops: beatmatch
\* transitions animated to completion while the processors adapt.
MixTransitions == { tr \in DJInputs : tr.transitionType = "beatmatch" }
MixNext ==
    \/ DJInitialize /\ OnlyDJ
    \/ (\E e \in Elems : PrepareNextTrack(e)) /\ OnlyDJ
    \/ (\E tr \in MixTransitions : ExecuteTransition(tr)) /\ OnlyDJ
    \/ AnimationFrame(1) /\ OnlyDJ
    \/ LPInitialize /\ OnlyLP
    \/ ApplyLoFiPreset("party") /\ OnlyLP
    \/ (\E t \in lp_timers, d \in FxBands : RealtimeTick(t, d)) /\ OnlyLP
    \/ (\E t \in lp_timers, d \in FxBands : EffectsTick(t, d)) /\ OnlyLP
    \/ EnableVisualMode /\ OnlyLP
    \/ StartAnalysis /\ OnlyLP
    \/ RTInitialize /\ OnlyRT
    \/ (\E sg \in Signals : RTConnect(sg[1], sg[2])) /\ OnlyRT
    \/ (\E sg \in Signals : RTFrame(sg[1], sg[2])) /\ OnlyRT
MixSpec == Init /\ [][MixNext]_vars

\* The engine analysing track lists and curating playlists from them.
PlaylistNext ==
    \/ (\E trackData \in TrackLists : AnalyzeTracks(trackData))
         /\ UNCHANGED <<djVars, lpVars, rtVars, plVars, aiVars>>
    \/ (\E mood \in Moods, maxTracks \in 0..MaxPlaylist :
           \E randoms \in [1..maxTracks -> FlowRandoms] :
              CreateMoodPlaylist(mood, maxTracks, randoms))
         /\ UNCHANGED <<djVars, lpVars, rtVars, plVars, aiVars>>
PlaylistSpec == Init /\ [][PlaylistNext]_vars

\* The Spotify-backed player alone: events of the SDK, startAIMix, the
\* monitoring and crossfade intervals and the resolutions of their awaits.
AINext ==
    \/ (\E sdkLoaded \in BOOLEAN : AIInitialize(sdkLoaded)) /\ OnlyAI
    \/ AIReady /\ OnlyAI
    \/ (\E present, paused, hasTrack \in BOOLEAN :
            PlayerStateChanged(present, paused, hasTrack)) /\ OnlyAI
    \/ (\E ok \in BOOLEAN, playlist \in AIPlaylists : StartAIMix(ok, playlist)) /\ OnlyAI
    \/ (\E ok \in BOOLEAN : StartPlayback(ok)) /\ OnlyAI
    \/ (\E t \in ai_timers : MonitorTick(t)) /\ OnlyAI
    \/ (\E present \in BOOLEAN : CurrentStateArrives(present)) /\ OnlyAI
    \/ (\E shouldTransition \in BOOLEAN : DecisionArrives(shouldTransition)) /\ OnlyAI
    \/ (\E t \in ai_timers, progress \in {5, 10} : CrossfadeTick(t, progress)) /\ OnlyAI
    \/ AIDisconnect /\ OnlyAI
AISpec == Init /\ [][AINext]_vars

\* One aiSortTracks call of the backend on every list of SortInputs and mood.
SortInit ==
    /\ DJInit /\ LPInit /\ RTInit /\ PLInit /\ AIInit /\ ENIdle
    /\ en_tracks = <<>>
    /\ fn_args \in [tracks : SortInputs, mood : Moods]
    /\ fn_result = <<>>
    /\ fn_first = <<>>
    /\ fn_calls = 0
    /\ lastOp = NoOp
SortNext == AiSort /\ UNCHANGED <<djVars, lpVars, rtVars, plVars, aiVars>>
SortSpec == SortInit /\ [][SortNext]_vars

\* One calculateTempoCompatibility call of the backend on every pair of Tempos.
TempoInit ==
    /\ DJInit /\ LPInit /\ RTInit /\ PLInit /\ AIInit /\ ENIdle
    /\ en_tracks = <<>>
    /\ fn_args \in [tempoA : Tempos, tempoB : Tempos]
    /\ fn_result = <<>>
    /\ fn_first = <<>>
    /\ fn_calls = 0
    /\ lastOp = NoOp
TempoNext == TempoCompatibility /\ UNCHANGED <<djVars, lpVars, rtVars, plVars, aiVars>>
TempoSpec == TempoInit /\ [][TempoNext]_vars

\* One createMoodPlaylist call on every analysed pool, mood, maxTracks and
\* sequence of draws.
CurateInit ==
    /\ DJInit /\ LPInit /\ RTInit /\ PLInit /\ AIInit /\ ENIdle
    /\ en_tracks \in { TrackAnalyses(trackData) : trackData \in TrackLists }
    /\ fn_args \in UNION { [mood : Moods, maxTracks : {n}, randoms : [1..n -> FlowRandoms]] :
                            n \in 0..MaxPlaylist }
    /\ fn_result = <<>>
    /\ fn_first = <<>>
    /\ fn_calls = 0
    /\ lastOp = NoOp
CurateNext == Curate /\ UNCHANGED <<djVars, lpVars, rtVars, plVars, aiVars>>
CurateSpec == CurateInit /\ [][CurateNext]_vars

\* calculateTransition called on one pair of tracks, between changes of the
\* engine's mood and pool.
TransInit ==
    /\ DJInit /\ LPInit /\ RTInit /\ PLInit /\ AIInit /\ ENIdle
    /\ en_tracks = <<>>
    /\ fn_args \in [fromTrack : TransitionTracks, toTrack : TransitionTracks]
    /\ fn_result = <<>>
    /\ fn_first = <<>>
    /\ fn_calls = 0
    /\ lastOp = NoOp
TransNext ==
    \/ CalculateTransition(fn_args.fromTrack, fn_args.toTrack)
         /\ UNCHANGED <<djVars, lpVars, rtVars, plVars, aiVars>>
    \/ (\E mood \in Moods : SetMood(mood))
         /\ UNCHANGED <<djVars, lpVars, rtVars, plVars, aiVars>>
    \/ (\E trackData \in { t \in TrackLists : Len(t) <= 1 } : AnalyzeTracks(trackData))
         /\ UNCHANGED <<djVars, lpVars, rtVars, plVars, aiVars>>
TransSpec == TransInit /\ [][TransNext]_vars

\* calculateKeyDistance on every pair of key values, directly and through
\* calculateTransition on two tracks of these keys.
KeyInit ==
    /\ DJInit /\ LPInit /\ RTInit /\ PLInit /\ AIInit /\ ENIdle
    /\ en_tracks = <<>>
    /\ fn_args \in KeyValues \X KeyValues
    /\ fn_result = <<>>
    /\ fn_first = <<>>
    /\ fn_calls = 0
    /\ lastOp = NoOp
KeyNext ==
    \/ KeyDistance(fn_args[1], fn_args[2])
         /\ UNCHANGED <<djVars, lpVars, rtVars, plVars, aiVars>>
    \/ CalculateTransition(TrackOfKey(fn_args[1]), TrackOfKey(fn_args[2]))
         /\ UNCHANGED <<djVars, lpVars, rtVars, plVars, aiVars>>
KeySpec == KeyInit /\ [][KeyNext]_vars

\* calculateMoodScores on every audio descriptor of MoodFeatures.
MoodInit ==
    /\ DJInit /\ LPInit /\ RTInit /\ PLInit /\ AIInit /\ ENIdle
    /\ en_tracks = <<>>
    /\ fn_args \in MoodFeatures
    /\ fn_result = <<>>
    /\ fn_first = <<>>
    /\ fn_calls = 0
    /\ lastOp = NoOp
MoodNext ==
    MoodScores(fn_args) /\ UNCHANGED <<djVars, lpVars, rtVars, plVars, aiVars>>
MoodSpec == MoodInit /\ [][MoodNext]_vars

\* analyzeTracks called again and again on track lists with and without
\* audio features.
AnalyzeNext ==
    (\E trackData \in RawTrackLists :
       \E draws \in [1..Len(trackData) -> MockRandoms] :
          AnalyzeTrackData(trackData, draws))
    /\ UNCHANGED <<djVars, lpVars, rtVars, plVars, aiVars>>
AnalyzeSpec == Init /\ [][AnalyzeNext]_vars

\* getNextTrack on every current track, every list of up to MaxRemaining
\* remaining tracks and every mood.
NextInit ==
    /\ DJInit /\ LPInit /\ RTInit /\ PLInit /\ AIInit
    /\ en_currentMood \in Moods
    /\ en_input = <<>>
    /\ en_pc = "idle"
    /\ en_optimized = <<>>
    /\ en_remaining = <<>>
    /\ en_result = <<>>
    /\ en_calls = 0
    /\ en_tracks = <<>>
    /\ fn_args \in [currentTrack : Refs,
                     remainingTracks : UNION { [1..n -> Refs] : n \in 0..MaxRemaining }]
    /\ fn_result = NoRef
    /\ fn_first = <<>>
    /\ fn_calls = 0
    /\ lastOp = NoOp
NextTrackNext ==
    (\E random \in NextRandoms : GetNext(fn_args.currentTrack, fn_args.remainingTracks, random))
    /\ UNCHANGED <<djVars, lpVars, rtVars, plVars, aiVars>>
NextTrackSpec == NextInit /\ [][NextTrackNext]_vars

\* The player through one mix: start, transition windows, completions, ended
\* and error events, skip and changeMood.  startAIDJMix is not called again
\* once a mix has tracks.
PlayerNext ==
    \/ PLInitialize /\ UNCHANGED <<djVars, lpVars, rtVars, aiVars>>
    \/ Len(pl_originalTracks) = 0
         /\ (\E n \in 0..MaxMix, mood \in PlayerMoods, previews \in PreviewSets,
            playOk \in BOOLEAN :
          \E draws \in PlayerDraws(n), order \in Orders(n) :
            StartAIDJMix(MixTracks(n), mood, draws, order, previews, playOk))
         /\ UNCHANGED <<djVars, lpVars, rtVars, aiVars>>
    \/ (\E accepted \in BOOLEAN, previews \in PreviewSets, playOk \in BOOLEAN :
            TimeUpdate(accepted, previews, playOk))
         /\ UNCHANGED <<djVars, lpVars, rtVars, aiVars>>
    \/ (\E previews \in PreviewSets : TransitionCompleteEvent(previews))
         /\ UNCHANGED <<djVars, lpVars, rtVars, aiVars>>
    \/ (\E audio \in AudioElements, previews \in PreviewSets, playOk \in BOOLEAN :
            Ended(audio, previews, playOk))
         /\ UNCHANGED <<djVars, lpVars, rtVars, aiVars>>
    \/ (\E audio \in AudioElements, previews \in PreviewSets, playOk \in BOOLEAN :
            AudioError(audio, previews, playOk))
         /\ UNCHANGED <<djVars, lpVars, rtVars, aiVars>>
    \/ (\E previews \in PreviewSets, playOk \in BOOLEAN : Skip(previews, playOk))
         /\ UNCHANGED <<djVars, lpVars, rtVars, aiVars>>
    \/ (\E newMood \in PlayerMoods, previews \in PreviewSets :
          \E draws \in PlayerDraws(Len(pl_originalTracks)),
             order \in Orders(Len(pl_originalTracks)) :
            ChangeMood(newMood, draws, order, previews))
         /\ UNCHANGED <<djVars, lpVars, rtVars, aiVars>>
PlayerSpec == Init /\ [][PlayerNext]_vars

MaxLoops == 2         \* analysis loops started in one behaviour

\* The player's analysis loop: mixes started and started again, pause,
\* resume, the end of the playlist and the loop's timeouts.
LoopNext ==
    \/ PLInitialize /\ UNCHANGED <<djVars, lpVars, rtVars, aiVars>>
    \/ pl_analysisLoops < MaxLoops
         /\ (\E n \in 0..MaxMix, mood \in PlayerMoods, playOk \in BOOLEAN :
                StartAIDJMix(MixTracks(n), mood, [i \in 1..n |-> 0], [i \in 1..n |-> i],
                             1..MaxMix, playOk))
         /\ UNCHANGED <<djVars, lpVars, rtVars, aiVars>>
    \/ Pause /\ UNCHANGED <<djVars, lpVars, rtVars, aiVars>>
    \/ Resume /\ UNCHANGED <<djVars, lpVars, rtVars, aiVars>>
    \/ AnalyzeTick /\ UNCHANGED <<djVars, lpVars, rtVars, aiVars>>
    \/ (\E playOk \in BOOLEAN : Skip(1..MaxMix, playOk))
         /\ UNCHANGED <<djVars, lpVars, rtVars, aiVars>>
LoopSpec == Init /\ [][LoopNext]_vars

\* One optimizeTrackOrder call on every input list and mood.
OrderInit == DJInit /\ LPInit /\ RTInit /\ PLInit /\ AIInit /\ ENInit /\ FNIdle /\ lastOp = NoOp
OrderNext ==
    \/ OptimizeStart /\ OnlyEN
    \/ (\E random \in Randoms : OptimizeStep(random)) /\ OnlyEN
OrderSpec == OrderInit /\ [][OrderNext]_vars

\* The same call running to its end: the statements of a running function
\* are executed one after another, so a step that is possible is taken.
OrderLiveSpec == OrderInit /\ [][OrderNext]_vars /\ WF_vars(OrderNext)

(***************************************************************************)
(*                    Claims: IntelligentDJTransitions                     *)
(***************************************************************************)

\* Number of 'dj-transition-complete' events dispatched for transition t.
Completions(t) == Cardinality({ i \in DOMAIN dj_events : dj_events[i].tid = t })

\* C1: at most one transition is in flight: there is never more than one
\* transition animation loop scheduled (so no executeTransition is accepted
\* while an earlier accepted transition has not completed).
C1_SingleTransitionInFlight == Cardinality(dj_loops) <= 1

\* C2: executeTransition called while a transition is active, or while no
\* next track is prepared (or before initialize), returns false and leaves
\* the whole executor state unchanged: TransitionState, both gains, the
\* scheduled animation.
C2_RejectedIsNoOp ==
    [][ ( /\ lastOp'.op = "executeTransition"
          /\ \/ ~dj_audioContext
             \/ dj_nextAudio = NoElem
             \/ dj_transitionState.isTransitioning )
        => (lastOp'.ret = FALSE /\ UNCHANGED djVars) ]_vars

\* a rejected call made while a transition was being animated
C2_Witness ==
    /\ lastOp = [op |-> "executeTransition", ret |-> FALSE]
    /\ dj_transitionState.isTransitioning
    /\ dj_transitionState.progress > 0
    /\ dj_loops # {}

\* C3: without stopTransition and with frames delivered as time advances,
\* every accepted transition completes: completeTransition runs for it,
\* exactly once, and leaves isTransitioning false with no animation pending.
C3_AcceptedCompletes ==
    /\ \A t \in 1..MaxTransitions :
         (Len(dj_accepted) >= t)
           ~> (/\ Completions(t) = 1
               /\ ~dj_transitionState.isTransitioning
               /\ dj_loops = {})
    /\ [](\A t \in 1..MaxTransitions : Completions(t) <= 1)

\* the second accepted transition has completed and the executor is idle
C3_Witness ==
    /\ Len(dj_accepted) = 2
    /\ Completions(1) = 1
    /\ Completions(2) = 1
    /\ ~dj_transitionState.isTransitioning
    /\ dj_loops = {}

\* C4: every transition-complete event carries the track that has just
\* become current, the toTrack of the transition that finished.
C4_EventCarriesNewTrack ==
    \A i \in DOMAIN dj_events :
        /\ dj_events[i].track # NoTrack
        /\ dj_events[i].track = dj_accepted[dj_events[i].tid]

\* C5: stopTransition during an active transition halts its animation
\* callback (nothing is left scheduled, so no later frame or completion) and
\* leaves the current-side gain at 1 and the next-side gain at 0.
C5_StopHaltsAndResets ==
    [][ (lastOp'.op = "stopTransition" /\ dj_transitionState.isTransitioning)
        => (dj_loops' = {} /\ dj_currentGain' = G1 /\ dj_nextGain' = 0) ]_vars

(***************************************************************************)
(*                         Claims: LoFiProcessor                           *)
(***************************************************************************)

\* C6: every value or target written to the effect chain is within bounds:
\* filter frequency in [1000, 8000] Hz, gain in [0.3, 1.0], compression
\* ratio in [2, 20].
C6_EffectParametersInBounds ==
    lp_nodes =>
        /\ lp_filter \in 1000..8000
        /\ lp_gain \in 30..100
        /\ lp_ratio \in 2..20

\* a tick of the effects loop on full-scale bands: the gain target sits on
\* its upper bound and the filter target is the base plus 1000 Hz
C6_Witness ==
    /\ lastOp = [op |-> "lp.tick", ret |-> TRUE]
    /\ lp_baseMoodSettings = LoFiPreset("party")
    /\ lp_gain = 100
    /\ lp_filter = 5000

\* C7: stopping the analysis loop (dispose, or the mood switch of
\* applyLoFiPreset) removes the stopped loop's interval and leaves the three
\* parameters targeted at the current base preset; no interval that retargets
\* parameters exists other than the one analysisInterval holds.
C7_StopCancelsAndRetargets ==
    /\ [][ (lastOp'.op = "lp.dispose" \/ lastOp' = [op |-> "applyLoFiPreset", ret |-> TRUE])
            => /\ \A t \in lp_timers' : t.id # lp_analysisInterval
               /\ (lp_nodes =>
                    /\ lp_filter' = lp_baseMoodSettings'.filterFrequency
                    /\ lp_gain' = lp_baseMoodSettings'.gain
                    /\ lp_ratio' = lp_baseMoodSettings'.compression
                    /\ lp_write'[Len(lp_write')] = "target") ]_vars
    /\ [](\A t \in lp_timers : t.kind # "mock" => t.id = lp_analysisInterval)

\* dispose has stopped a loop after a mood switch: no retargeting interval
\* is left and the parameters are those of the party preset
C7_Witness ==
    /\ lastOp.op = "lp.dispose"
    /\ lp_nodes
    /\ lp_nextTimerId > 2
    /\ lp_analysisInterval = 0
    /\ \A t \in lp_timers : t.kind = "mock"
    /\ lp_currentMood = "party"
    /\ lp_filter = 4000 /\ lp_gain = 90 /\ lp_ratio = 4

(***************************************************************************)
(*                  Claims: presets and the two loops                      *)
(***************************************************************************)

\* C8 as stated: no analysis tick, adaptive frame or adjustParameter call
\* changes the stored base settings of either processor.
C8_NothingChangesBaseSettings ==
    [][ lastOp'.op \in {"lp.tick", "rt.connect", "rt.frame", "adjustParameter"}
        => /\ lp_baseMoodSettings' = lp_baseMoodSettings
           /\ rt_currentSettings' = rt_currentSettings ]_vars

\* C8, amended: no analysis tick and no adaptive frame changes the stored
\* base settings; adjustParameter changes only the transformer's current
\* settings; applying a mood installs that mood's preset values whatever
\* happened before, and the processor's base settings are always the preset
\* of its current mood.
C8_PresetsAreConstants ==
    /\ [][ /\ (lastOp'.op \in {"lp.tick", "rt.connect", "rt.frame"}
                => /\ lp_baseMoodSettings' = lp_baseMoodSettings
                   /\ lp_currentMood' = lp_currentMood
                   /\ rt_currentSettings' = rt_currentSettings)
           /\ (lastOp'.op = "adjustParameter"
                => /\ lp_baseMoodSettings' = lp_baseMoodSettings
                   /\ lp_currentMood' = lp_currentMood)
           /\ (lastOp' = [op |-> "applyLoFiPreset", ret |-> TRUE]
                => lp_baseMoodSettings' = LoFiPreset(lp_currentMood'))
           /\ (lastOp'.op = "applyMoodPreset"
                => rt_currentSettings' = GetDefaultSettings(lastOp'.ret)) ]_vars
    /\ [](lp_baseMoodSettings = LoFiPreset(lp_currentMood))

\* an analysis tick has moved the filter away from the party preset while
\* the transformer runs on settings adjustParameter has changed
C8_Witness ==
    /\ lastOp = [op |-> "lp.tick", ret |-> TRUE]
    /\ lp_currentMood = "party"
    /\ lp_filter # lp_baseMoodSettings.filterFrequency
    /\ rt_currentSettings.lowPassFreq = 9000
    /\ rt_isProcessing

Occurrences(seq, r) == Cardinality({ i \in DOMAIN seq : seq[i] = r })

\* C10: what optimizeTrackOrder returns is a permutation of its input (every
\* track as often as the input holds it), and the input itself when that has
\* at most one track.
C10_OutputIsPermutation ==
    en_pc = "done" =>
        /\ Len(en_result) = Len(en_input)
        /\ \A r \in Refs : Occurrences(en_result, r) = Occurrences(en_input, r)
        /\ (Len(en_input) <= 1 => en_result = en_input)

\* a call on three distinct tracks that returned them in another order
C10_Witness ==
    /\ en_pc = "done"
    /\ Len(en_input) = 3
    /\ Cardinality({ en_input[i] : i \in DOMAIN en_input }) = 3
    /\ en_result # en_input
    /\ en_calls = 2

\* C11: optimizeTrackOrder terminates: every iteration of its loop takes at
\* least one track out of remaining, it makes at most n - 1 calls of
\* getNextTrack for n input tracks, and every call reaches its return.
C11_OrderTerminates ==
    /\ [][en_pc = "loop" => Len(en_remaining') < Len(en_remaining)]_vars
    /\ [](en_calls <= Max(0, Len(en_input) - 1))
    /\ <>(en_pc = "done")

\* a call on three tracks that returned after its second getNextTrack
C11_Witness ==
    /\ en_pc = "done"
    /\ Len(en_input) = 3
    /\ en_calls = 2
    /\ en_remaining = <<>>
    /\ lastOp.op = "getNextTrack"

\* The track ids of the playlist the latest createMoodPlaylist returned.
PlaylistIds == [i \in 1..Len(fn_result) |-> en_tracks[fn_result[i]].id]

\* C12: a playlist createMoodPlaylist returns never holds two tracks with
\* the same track id, whatever track list the pool was analysed from.
C12_NoDuplicateTrackIds ==
    lastOp.op = "createMoodPlaylist" =>
        \A i, j \in 1..Len(fn_result) : i # j => PlaylistIds[i] # PlaylistIds[j]

\* C13: createMoodPlaylist(mood, maxTracks) returns exactly
\* min(maxTracks, pool size) tracks.
C13_PlaylistLength ==
    lastOp.op = "createMoodPlaylist" =>
        Len(fn_result) = Min(fn_args.maxTracks, Len(en_tracks))

\* maxTracks 5 on a pool of three gave three tracks, the last of them a
\* track that fails the mood-score constraint (the fallback chose it)
C13_Witness ==
    /\ lastOp.op = "createMoodPlaylist"
    /\ fn_args.maxTracks = 5
    /\ Len(en_tracks) = 3
    /\ Len(fn_result) = 3
    /\ en_tracks[fn_result[3]].moodScore[fn_args.mood] <= 8000

\* C14: calculateTransition classifies by first match: beatmatch / 16000 if
\* |tempoRatio - 1| < 0.1 and keyDistance <= 2; else harmonic / 12000 if
\* keyDistance <= 1; else energy_build or energy_drop / 10000 if the absolute
\* energy difference exceeds 0.3; else crossfade / 8000.
C14_FirstMatchClassification ==
    lastOp.op = "calculateTransition" =>
        LET from == fn_args.fromTrack.audioFeatures
            to == fn_args.toTrack.audioFeatures
            tempoClose == from.tempo > 0 /\ 10 * Abs(to.tempo - from.tempo) < from.tempo
            keyDistance == CalculateKeyDistance(from.key, to.key)
            pair == <<fn_result.transitionType, fn_result.duration>>
        IN  IF tempoClose /\ keyDistance <= 2 THEN pair = <<"beatmatch", 16000>>
            ELSE IF keyDistance <= 1 THEN pair = <<"harmonic", 12000>>
            ELSE IF Abs(to.energy - from.energy) > 30
                 THEN pair \in {<<"energy_build", 10000>>, <<"energy_drop", 10000>>}
            ELSE pair = <<"crossfade", 8000>>

\* an energy transition was returned for keys and tempos far apart
C14_Witness ==
    /\ lastOp.op = "calculateTransition"
    /\ fn_args.fromTrack.audioFeatures = [tempo |-> 100, key |-> 0, energy |-> 20]
    /\ fn_args.toTrack.audioFeatures = [tempo |-> 120, key |-> 6, energy |-> 60]
    /\ fn_result.transitionType = "energy_build"
    /\ fn_result.duration = 10000

\* The call the tempo 120 / 121, key 0 / 7 scenario is about.
ScenarioCall ==
    /\ lastOp.op = "calculateTransition"
    /\ fn_args.fromTrack.audioFeatures.tempo = 120
    /\ fn_args.toTrack.audioFeatures.tempo = 121
    /\ fn_args.fromTrack.audioFeatures.key = 0
    /\ fn_args.toTrack.audioFeatures.key = 7

\* C15 (as stated): for tempos 120 and 121 and keys 0 and 7,
\* calculateTransition returns harmonic with duration 12000.
C15_ScenarioIsHarmonic ==
    ScenarioCall =>
        fn_result.transitionType = "harmonic" /\ fn_result.duration = 12000

\* C15 (amended): for tempos 120 and 121 and keys 0 and 7 (keyDistance 1),
\* calculateTransition returns beatmatch with duration 16000 and
\* keyCompatibility 5/6: the beatmatch rule matches first.
C15_ScenarioIsBeatmatch ==
    ScenarioCall =>
        /\ fn_result.transitionType = "beatmatch"
        /\ fn_result.duration = 16000
        /\ fn_result.keyCompatibility = 5

C15_Witness ==
    ScenarioCall /\ fn_result.transitionType = "beatmatch"

C19_TransitionFieldsInRange ==
    lastOp.op = "calculateTransition" =>
        /\ fn_result.tempoAdjustment \in 800..1200
        /\ fn_result.keyCompatibility \in 0..6

\* C17: keyDistance(a, b) = keyDistance(b, a), 0 <= keyDistance(a, b) <= 6,
\* and keyDistance(a, b) = 6 whenever a or b is outside 0..11.
C17_KeyDistanceSymmetricBounded ==
    lastOp.op = "calculateKeyDistance" =>
        /\ fn_result = CalculateKeyDistance(fn_args[2], fn_args[1])
        /\ fn_result \in 0..6
        /\ ((fn_args[1] \notin 0..11 \/ fn_args[2] \notin 0..11) => fn_result = 6)

\* keys 0 and 5 are neighbours across the end of the circle's list
C17_Witness ==
    /\ lastOp.op = "calculateKeyDistance"
    /\ fn_args = <<0, 5>>
    /\ fn_result = 1

\* C18 (as stated): keyDistance(a, a) = 0 for every key value a, and two
\* tracks of the same key value have keyCompatibility 1.
C18_SameKeyIsDistanceZero ==
    fn_args[1] = fn_args[2] =>
        /\ (lastOp.op = "calculateKeyDistance" => fn_result = 0)
        /\ (lastOp.op = "calculateTransition" => fn_result.keyCompatibility = 6)

\* C18 (amended): keyDistance(a, a) = 0 and keyCompatibility 1 for every
\* pitch class a in 0..11; for every other key value a, keyDistance(a, a) = 6
\* and two tracks of that key value have keyCompatibility 0.
C18_SameKnownKeyIsDistanceZero ==
    fn_args[1] = fn_args[2] =>
        /\ (lastOp.op = "calculateKeyDistance" =>
               fn_result = IF fn_args[1] \in 0..11 THEN 0 ELSE 6)
        /\ (lastOp.op = "calculateTransition" =>
               fn_result.keyCompatibility = IF fn_args[1] \in 0..11 THEN 6 ELSE 0)

\* two tracks without a detected key got keyCompatibility 0
C18_Witness ==
    /\ lastOp.op = "calculateTransition"
    /\ fn_args = <<-1, -1>>
    /\ fn_result.keyCompatibility = 0

\* C20 (as stated): for every audio descriptor with its [0,1] fields in
\* [0,1] (the tempo has no documented range), each of the four mood scores
\* lies in [0, 1.1].
C20_MoodScoresInRange ==
    lastOp.op = "calculateMoodScores" =>
        \A mood \in Moods : fn_result[mood] \in 0..22000

\* C20 (amended): with the [0,1] fields in [0,1] and the tempo in [0, 600]
\* BPM each mood score lies in [0, 1.1]; for every tempo >= 0, chill lies in
\* [0, 0.94], cafe in [0, 0.835], study in [0, 0.95] and party in
\* [0, 0.95 + tempo/4000].
C20_MoodScoresInRangeForTempo ==
    lastOp.op = "calculateMoodScores" =>
        /\ (fn_args.tempo <= 600 => \A mood \in Moods : fn_result[mood] \in 0..22000)
        /\ fn_result.chill \in 0..18800
        /\ fn_result.cafe \in 0..16700
        /\ fn_result.study \in 0..19000
        /\ fn_result.party \in 0..(19000 + 5 * fn_args.tempo)

\* the party score of a descriptor with every field at 1 and tempo 600 is 1.1
C20_Witness ==
    /\ lastOp.op = "calculateMoodScores"
    /\ fn_args.tempo = 600
    /\ fn_result.party = 22000

\* C21: analyzeTracks returns one TrackAnalysis per input track, in input
\* order and with the input's id, and every descriptor it synthesizes for a
\* track without audio features has key in 0..11, mode in {0,1}, the
\* unit-interval fields in [0,1], loudness in [-60,0] and a positive tempo.
C21_AnalysisPerTrackWithBoundedMocks ==
    lastOp.op = "analyzeTracks" =>
        /\ Len(fn_result) = Len(fn_args)
        /\ \A i \in 1..Len(fn_args) :
              /\ fn_result[i].id = fn_args[i].id
              /\ fn_args[i].audio_features = NoFeatures =>
                    LET f == fn_result[i].audioFeatures
                    IN  /\ f.key \in 0..11
                        /\ f.mode \in {0, 1}
                        /\ \A x \in {f.danceability, f.energy, f.speechiness,
                                      f.acousticness, f.instrumentalness,
                                      f.liveness, f.valence} : x \in 0..100
                        /\ f.loudness \in -60..0
                        /\ f.tempo > 0

\* a track without audio features came second and got the largest mock key
C21_Witness ==
    /\ lastOp.op = "analyzeTracks"
    /\ Len(fn_args) = 2
    /\ fn_args[1].audio_features # NoFeatures
    /\ fn_args[2].audio_features = NoFeatures
    /\ fn_result[2].id = fn_args[2].id
    /\ fn_result[2].audioFeatures.key = 11

\* The value of the gain node the source of audio element e feeds:
\* prepareNextTrack connects every source it creates to nextGain, and no
\* source is ever connected to currentGain or reconnected.
RoutedGain(e) == IF e \in dj_sourced THEN dj_nextGain ELSE NoGain

\* C25: after a transition completes, the audio source that has just become
\* current is routed through a gain of 1 and the vacant next side has gain 0.
C25_CurrentRoutedAtUnity ==
    (lastOp.op = "frame" /\ lastOp.ret /\ dj_currentAudio # NoElem) =>
        RoutedGain(dj_currentAudio) = G1 /\ dj_nextGain = 0

\* C30 (as stated): for every transition type the gain animation completes
\* when transition.duration milliseconds have elapsed since it started.
C30_AnimationRunsForDuration ==
    lastOp.op = "frame" =>
        \A l \in lastOp.completed :
            l.elapsed * TickMs =
                PlannedDuration(IF l.type = "curve" THEN "harmonic" ELSE l.type)

\* C30 (amended): the animation of a crossfade, beatmatch or harmonic
\* transition completes when transition.duration milliseconds have elapsed;
\* that of an energy_build after min(duration, 6000) ms and that of an
\* energy_drop after max(duration, 12000) ms.
C30_AnimationRunsForExecutorDuration ==
    lastOp.op = "frame" =>
        \A l \in lastOp.completed :
            l.elapsed * TickMs =
                CASE l.type = "energy_build" -> Min(PlannedDuration("energy_build"), 6000)
                  [] l.type = "energy_drop" -> Max(PlannedDuration("energy_drop"), 12000)
                  [] l.type = "curve" -> PlannedDuration("harmonic")
                  [] OTHER -> PlannedDuration(l.type)

\* an energy_build planned over 10000 ms completed 6000 ms after its start
C30_Witness ==
    /\ lastOp.op = "frame"
    /\ \E l \in lastOp.completed : l.type = "energy_build" /\ l.elapsed * TickMs = 6000

\* C27: getNextTrack returns null only for an empty remaining list; for a
\* non-empty one it returns, whatever the random draw, a member of the list
\* whose transition score is among the three highest.
C27_NextIsTopThreeMember ==
    lastOp.op = "getNextTrack" =>
        LET remaining == fn_args.remainingTracks
            score == [r \in Refs |->
                        CalculateTransitionScore(TrackPool[fn_args.currentTrack],
                                                 TrackPool[r], en_currentMood)]
        IN  IF remaining = <<>> THEN fn_result = NoRef
            ELSE /\ \E i \in 1..Len(remaining) : remaining[i] = fn_result
                 /\ Cardinality({ i \in 1..Len(remaining) :
                                     score[remaining[i]] > score[fn_result] }) <= 2

\* a draw above every weight band, on four candidates, fell back to the best
C27_Witness ==
    /\ lastOp.op = "getNextTrack"
    /\ lastOp.ret = 99
    /\ Len(fn_args.remainingTracks) = 4
    /\ Cardinality({ fn_args.remainingTracks[i] : i \in 1..4 }) = 4
    /\ fn_result # NoRef

\* The calculateTransition call neither the beatmatch nor the harmonic rule
\* matches and whose energies differ by more than 0.3.
EnergyCall ==
    /\ lastOp.op = "calculateTransition"
    /\ fn_result.transitionType \notin {"beatmatch", "harmonic"}
    /\ Abs(fn_args.toTrack.audioFeatures.energy
            - fn_args.fromTrack.audioFeatures.energy) > 30

\* C28: when neither the beatmatch nor the harmonic rule matches and the
\* energies differ by more than 0.3, calculateTransition returns energy_build
\* if the incoming track's energy is higher and energy_drop if it is lower.
C28_EnergyDirectionBySign ==
    EnergyCall =>
        fn_result.transitionType =
            IF fn_args.toTrack.audioFeatures.energy > fn_args.fromTrack.audioFeatures.energy
            THEN "energy_build" ELSE "energy_drop"

\* C29: calculateTransition never returns transitionType energy_drop.
C29_NeverEnergyDrop ==
    lastOp.op = "calculateTransition" => fn_result.transitionType # "energy_drop"

\* a pair whose incoming track has the lower energy got energy_build
C29_Witness ==
    /\ EnergyCall
    /\ fn_args.toTrack.audioFeatures.energy < fn_args.fromTrack.audioFeatures.energy
    /\ fn_result.transitionType = "energy_build"

\* C22: a track's TrackAnalysis is immutable: across changeMood and repeated
\* analyzeTracks the same track id always carries the same audio descriptor,
\* mood scores and mixingCompatibility.
C22_AnalysisImmutable ==
    [][\A i \in DOMAIN en_tracks : \A j \in DOMAIN en_tracks' :
          en_tracks[i].id = en_tracks'[j].id => en_tracks[i] = en_tracks'[j]]_vars

\* C26: whenever a next track has been prepared, nextAudio and currentAudio
\* are different elements.
C26_NextAudioIsNotCurrent ==
    (pl_djState.nextTrack # NoAnalysis /\ pl_nextAudio # NoElem) =>
        pl_nextAudio # pl_currentAudio

\* djState.currentTrack is the track at djState.playlist[djState.playlistIndex]
CurrentTrackAtIndex(djState) ==
    /\ djState.playlistIndex < Len(djState.playlist)
    /\ djState.currentTrack = djState.playlist[djState.playlistIndex + 1]

\* C24: in a started mix, a transition completion, skip(), an 'ended' or
\* 'error' event and changeMood keep djState.currentTrack the track at
\* djState.playlist[djState.playlistIndex], and an advance increases
\* playlistIndex by exactly 1.
C24_CurrentTrackAtIndex ==
    [][(/\ lastOp'.op \in {"dj-transition-complete", "skip", "ended", "error",
                            "changeMood"}
        /\ pl_djState.isPlaying
        /\ CurrentTrackAtIndex(pl_djState))
       => /\ (pl_djState'.isPlaying => CurrentTrackAtIndex(pl_djState'))
          /\ pl_djState'.playlistIndex <= pl_djState.playlistIndex + 1]_vars

\* The position (from 1) of the current track in the playlist, 0 if none.
CurrentPosition ==
    IF \E k \in 1..Len(pl_djState.playlist) :
           pl_djState.playlist[k] = pl_djState.currentTrack
    THEN CHOOSE k \in 1..Len(pl_djState.playlist) :
           pl_djState.playlist[k] = pl_djState.currentTrack
    ELSE 0

\* C23: when 'ended' fires on the current element or an 'error' occurs while
\* the playlist has a track after the current one, the immediately following
\* playlist track becomes the current track.
C23_EndedOrErrorAdvances ==
    [][(/\ lastOp'.op \in {"ended", "error"}
        /\ (lastOp'.op = "ended" => lastOp'.ret)
        /\ pl_djState.isPlaying
        /\ CurrentPosition > 0
        /\ CurrentPosition < Len(pl_djState.playlist))
       => pl_djState'.currentTrack = pl_djState.playlist[CurrentPosition + 1]]_vars

(***************************************************************************)
(*                     Claims: smoothing and retargeting                   *)
(***************************************************************************)

\* C31: after initialization every change LoFiProcessor makes to the filter
\* frequency, the gain or the compression ratio - by an analysis tick, by a
\* mood switch or by stopping analysis - is a smoothed approach to a target,
\* never an assignment of the parameter's value.
C31_EveryChangeIsSmoothed ==
    [][ (\/ lastOp' = [op |-> "lp.tick", ret |-> TRUE]
         \/ lastOp' = [op |-> "applyLoFiPreset", ret |-> TRUE]
         \/ (lastOp'.op = "lp.dispose" /\ lp_nodes))
        => \A i \in DOMAIN lp_write' : lp_write'[i] = "target" ]_vars

\* C32: on every analysis tick that retargets parameters, of whichever loop,
\* the three targets are clamp(base + delta) for the deltas that
\* calculateDynamicAdjustments gives for some band levels.
C32_TickTargetsAreBasePlusDelta ==
    [][ lastOp' = [op |-> "lp.tick", ret |-> TRUE]
        => \E d \in BandLevels :
              LET tg == DynamicAdjustmentTargets(
                          CalculateDynamicAdjustments(d.bass, d.mid, d.treble))
              IN  /\ lp_filter' = tg.filter
                  /\ lp_gain' = tg.gain
                  /\ lp_ratio' = tg.ratio ]_vars

(***************************************************************************)
(*                    Claims: curation and planned curves                  *)
(***************************************************************************)

\* energyTargets[i - 1] of the call held in fn_args
SlotTarget(i) ==
    EnergyTarget(fn_args.mood, i - 1, fn_args.maxTracks, fn_args.randoms[i])

\* The objects of this.tracks not among the first n of the playlist.
Unused(n) ==
    { u \in 1..Len(en_tracks) : \A j \in 1..n : fn_result[j] # u }

\* The unused objects that satisfy both conditions of slot i (from 1).
Qualifying(i) ==
    { u \in Unused(i - 1) :
        /\ Abs(10 * en_tracks[u].audioFeatures.energy - SlotTarget(i)) < 300
        /\ en_tracks[u].moodScore[fn_args.mood] > 8000 }

\* C33: for each slot of createMoodPlaylist the chosen track is, among the
\* tracks not yet selected, one with the highest mood score among those
\* with |energy - target| < 0.3 and mood score > 0.4; when no unused track
\* satisfies both, it is an unused track with the highest mood score.
C33_SlotTakesBestQualifying ==
    lastOp.op = "createMoodPlaylist" =>
        \A i \in 1..Len(fn_result) :
            LET from == IF Qualifying(i) # {} THEN Qualifying(i) ELSE Unused(i - 1)
            IN  /\ fn_result[i] \in from
                /\ \A u \in from :
                      en_tracks[fn_result[i]].moodScore[fn_args.mood]
                        >= en_tracks[u].moodScore[fn_args.mood]

\* a playlist whose first slot passed over the best-scoring track for one
\* near the energy target, and whose last slot fell back
C33_Witness ==
    /\ lastOp.op = "createMoodPlaylist"
    /\ Len(fn_result) = 3
    /\ Qualifying(1) # {}
    /\ \E u \in Unused(0) :
          en_tracks[u].moodScore[fn_args.mood]
            > en_tracks[fn_result[1]].moodScore[fn_args.mood]
    /\ Qualifying(3) = {}

\* C34: in RealTimeAudioTransformer the low-pass frequency stays within
\* [1000, 8000] Hz and the compression ratio within [2, 20] after any
\* sequence of applyMoodPreset, adjustParameter and adaptive frames.
C34_TransformerParametersInBounds ==
    rt_nodes =>
        /\ rt_lowPass \in 1000..8000
        /\ rt_ratio \in 20..200

\* C35: every harmonic DJTransition calculateTransition returns has a
\* keyCompatibility of at least 5/6, for which generateHarmonicCurve builds
\* the linear curve.
C35_PlannedHarmonicIsLinear ==
    (lastOp.op = "calculateTransition" /\ fn_result.transitionType = "harmonic") =>
        /\ fn_result.keyCompatibility >= 5
        /\ HarmonicCurveKind(fn_result.keyCompatibility) = "linear"

\* a harmonic transition between neighbouring keys of the circle of fifths:
\* keyCompatibility is 5/6, the lowest a harmonic transition has
C35_Witness ==
    /\ lastOp.op = "calculateTransition"
    /\ fn_result.transitionType = "harmonic"
    /\ fn_result.keyCompatibility = 5
    /\ fn_result.fromTrack.audioFeatures.key = 0
    /\ fn_result.toTrack.audioFeatures.key = 7

\* C36: whenever djState.isPlaying is true exactly one analysis loop of
\* CompleteAIDJPlayer is active, after any sequence of startAIDJMix, pause
\* and resume.
C36_OneAnalysisLoopWhilePlaying ==
    pl_djState.isPlaying => pl_analysisLoops = 1

(***************************************************************************)
(*                         Claims: backend engine                          *)
(***************************************************************************)

\* C37: aiSortTracks returns a permutation of an input of at most 20 tracks,
\* and exactly 20 distinct input tracks for an input of more than 20.
C37_SortKeepsEveryTrack ==
    lastOp.op = "aiSortTracks" =>
        /\ Len(fn_result) = Min(Len(fn_args.tracks), 20)
        /\ \A i, j \in 1..Len(fn_result) : fn_result[i] = fn_result[j] => i = j
        /\ \A i \in 1..Len(fn_result) :
              \E k \in 1..Len(fn_args.tracks) : fn_args.tracks[k] = fn_result[i]

\* C39: calculateTempoCompatibility(a, b) = calculateTempoCompatibility(b, a)
\* for all tempos a and b.
C39_TempoCompatibilitySymmetric ==
    lastOp.op = "calculateTempoCompatibility" =>
        fn_result = CalculateTempoCompatibility(fn_args.tempoB, fn_args.tempoA)

(***************************************************************************)
(*                    Claims: LoFiProcessor analysis timers                *)
(***************************************************************************)

\* The registered intervals whose callback retargets filter, gain or ratio
RetargetingTimers == { t \in lp_timers : t.kind # "mock" }

\* C38: after any sequence of applyLoFiPreset, startAnalysis,
\* enableVisualMode and dispose at most one interval that retargets
\* parameters is registered, isAnalyzing is false exactly when none is, and
\* none is registered when dispose has returned.
C38_AtMostOneAnalysisTimer ==
    /\ Cardinality(RetargetingTimers) <= 1
    /\ (~lp_isAnalyzing <=> RetargetingTimers = {})
    /\ (lastOp.op = "lp.dispose" => RetargetingTimers = {})

\* applyLoFiPreset has replaced the interval of startAnalysis by its own
C38_Witness ==
    /\ lastOp = [op |-> "applyLoFiPreset", ret |-> TRUE]
    /\ lp_isAnalyzing
    /\ lp_timers = {[id |-> 2, kind |-> "realtime"]}

(***************************************************************************)
(*                          Claims: AILoFiPlayer                           *)
(***************************************************************************)

\* state.currentIndex is below the playlist length and state.currentTrack is
\* the playlist element at that index
AIPositionValid(state) ==
    /\ state.currentIndex < Len(state.playlist)
    /\ state.currentTrack = AIPlaylistAt(state.playlist, state.currentIndex)

\* C40: at most one crossfade interval is registered at any time, and no
\* monitoring callback (its resumptions after the awaits included, however
\* late and from however many monitoring intervals) and no crossfade tick
\* takes a valid position to an invalid one: the crossfade only advances to
\* a track that exists.
C40_CrossfadeStaysInPlaylist ==
    /\ [](Cardinality({ t \in ai_timers : t.kind = "crossfade" }) <= 1)
    /\ [][ (lastOp'.op \in {"ai.monitor", "ai.state", "ai.decision", "ai.crossfade"}
             /\ AIPositionValid(ai_state))
            => AIPositionValid(ai_state') ]_vars

====
